---- MODULE Spec2Model ----
(***************************************************************************)
(* Backhaul reverse tunnel: the control plane and the dispatch engine.     *)
(*                                                                         *)
(*   SpecTcp     the plain TCP Server (part_000) against arbitrary peers   *)
(*               on the tunnel port, the mapped ports and the control      *)
(*               channel.                                                  *)
(*   SpecMux     the TCP-mux Server (tcpmux.go), likewise.                 *)
(*   Spec        either Server.                                            *)
(*   FairSpec    the plain TCP Server under fair scheduling.               *)
(*   SpecClient  the Client (client/transport/tcp.go) against an arbitrary *)
(*               Server.                                                   *)
(*   SpecLink    the Client's channelDialer dialing the plain TCP Server's *)
(*               handshake loop.                                           *)
(*                                                                         *)
(* Strings and frames are sequences of bytes (naturals below 256).         *)
(***************************************************************************)
EXTENDS Integers, Sequences, FiniteSets, TLC

(***************************************************************************)
(* Bounds of the model.                                                    *)
(***************************************************************************)
MaxTunnel == 3      \* tunnel connections dialed to the Server in one run
MaxUser == 3        \* user connections arriving on mapped ports in one run
MaxRestart == 1     \* Restart sequences in one run
ChannelSize == 2    \* config.ChannelSize
NumCPU == 2         \* runtime.NumCPU(), at most 4 handle loops
MuxCon == 2         \* config.MuxCon
ConnPoolSize == 1   \* config.ConnPoolSize
MaxDial == 3        \* connections the Client dials in one run
MaxSignal == 2      \* bytes the Client reads from the control channel
MaxTick == 2        \* 1-second ticks of the pool maintainer
MaxWindow == 2      \* 60-second ticks of the pool maintainer
MaxCall == 2        \* Restart calls pending at one time
SteadyRate == 50    \* REQ_CHAN signals per second under steady load
MaxEntryLen == 3    \* characters of a port-mapping entry

(***************************************************************************)
(* The wire alphabet, utils/signals.go.                                    *)
(***************************************************************************)
SG_HB == 0
SG_Chan == 1
SG_Ping == 2
SG_Closed == 3
SG_TCP == 4
SG_UDP == 5

(***************************************************************************)
(* Signal codec (utils, not among the source files): a string travels as a *)
(* big-endian u16 length followed by its bytes; the tagged variant has one *)
(* extra leading signal byte.                                              *)
(***************************************************************************)
SendBinaryString(s) == <<Len(s) \div 256, Len(s) % 256>> \o s

SendBinaryTransportString(s, tag) == <<tag>> \o SendBinaryString(s)

\* Reading from a stream that holds `stream` and then stays silent: the
\* read fails (deadline, end of stream) when the announced bytes are not there.
ReceiveBinaryString(stream) ==
    IF Len(stream) < 2
    THEN [err |-> TRUE, msg |-> <<>>]
    ELSE LET n == stream[1] * 256 + stream[2]
         IN  IF Len(stream) < 2 + n
             THEN [err |-> TRUE, msg |-> <<>>]
             ELSE [err |-> FALSE, msg |-> SubSeq(stream, 3, 2 + n)]

ReceiveBinaryTransportString(stream) ==
    IF Len(stream) < 1
    THEN [err |-> TRUE, msg |-> <<>>, transport |-> SG_HB]
    ELSE LET r == ReceiveBinaryString(Tail(stream))
         IN  [err |-> r.err, msg |-> r.msg, transport |-> stream[1]]

(***************************************************************************)
(* Configuration.                                                          *)
(***************************************************************************)
Token == <<7>>                      \* the Server's config.Token
Tokens == {<<7>>, <<8>>}            \* tokens a peer may hold
PeerIPs == {1, 2}                   \* remote IPs of tunnel peers
RemoteAddrs == {<<58, 56>>}         \* remote_target of each port mapping (":8")

\* What a peer may write first on a connection to the tunnel port: the
\* Client's frame (client/transport/tcp.go:120), the same token tagged
\* SG_Chan, or nothing.
ClientHello(tok) == SendBinaryString(tok)
TaggedHello(tok) == SendBinaryTransportString(tok, SG_Chan)
Hellos == {ClientHello(Token)} \cup {TaggedHello(t) : t \in Tokens} \cup {<<>>}

NoConn == [id |-> 0, ip |-> 0, hello |-> <<>>]
NoLocal == [conn |-> 0, remoteAddr |-> <<>>]
Workers == 1 .. NumCPU
IdleWorker == [pc |-> "idle", local |-> NoLocal, sess |-> 0]
NoWorker == [pc |-> "none", local |-> NoLocal, sess |-> 0]
NoPool == [pc |-> "none", newPoolSize |-> 0, poolConnectionsSum |-> 0]
NoListener == [pc |-> "none", passed |-> {}, installed |-> 0]
NoSession == [pc |-> "none", worker |-> 0, counter |-> 0, opened |-> 0,
              local |-> NoLocal]

VARIABLES
    variant,          \* "tcp" (part_000), "mux" (tcpmux.go) or "ws" (part_001)
    tl,               \* tunnelListener of "ws": pc "none", "serving", "done";
                      \* the "/channel" requests between test and assignment
    Ports,            \* s.config.Ports: the port-mapping entries, as strings
    mappings,         \* parsePortMappings: [pc, listeners]
    parentDone,       \* s.parentctx is cancelled
    ctxDone,          \* s.ctx is cancelled
    restartMutex,     \* restartMutex is held (Restart sleeps)
    restartCalls,     \* `go s.Restart()` goroutines that have not run yet
    lifecycle,        \* Restart sequences completed
    controlChannel,   \* s.controlChannel, NoConn for nil
    tunnelChannel,    \* s.tunnelChannel: connections (tcp) or sessions (mux)
    localChannel,     \* s.localChannel: LocalTCPConn records
    reqNewConnChan,   \* s.reqNewConnChan: number of tokens
    startPc,          \* Start: "init", "handshake" (in channelHandshake), "done"
    hs,               \* channelHandshake: [pc, conn]
    ch,               \* channelHandler: [pc, reader, failed (an I/O error seen)]
    wk,               \* handleLoop per worker: [pc, local, sess]
    sn,               \* handleSession per mux session
    nextT, openT,     \* tunnel connections accepted so far, and the open ones
    nextU, openU,     \* user connections accepted so far, and the open ones
    copying,          \* pairings a copier is streaming
    copied            \* every pairing ever handed to a copier

config == <<variant, Ports, mappings>>
ctxs == <<parentDone, ctxDone>>
rst == <<restartMutex, restartCalls, lifecycle>>
chans == <<tunnelChannel, localChannel, reqNewConnChan>>
tasks == <<startPc, hs, ch, wk, sn>>
socks == <<nextT, openT, nextU, openU>>
pairs == <<copying, copied>>

srvVars == <<config, tl, ctxs, rst, controlChannel, chans, tasks, socks, pairs>>

\* The Client, client/transport/tcp.go.
VARIABLES
    cliToken,         \* c.config.Token
    cParentDone,      \* c.parentctx is cancelled
    cCtxDone,         \* c.ctx is cancelled
    cRestartMutex,    \* c.restartMutex is held
    cRestartCalls,    \* `go c.Restart()` goroutines that have not run yet
    cLifecycle,       \* Restart sequences completed
    cControl,         \* c.controlChannel: 0 for nil, else the dial's number
    cNext, cOpen,     \* dials made so far, and the sockets still open
    dl,               \* channelDialer: [pc, conn]
    pm,               \* poolMaintainer: [pc, newPoolSize, poolConnectionsSum]
    hd,               \* channelHandler: [pc, reader]
    msgChan,          \* msgChan of channelHandler
    errChan,          \* errChan of channelHandler holds an error
    poolConnections,  \* c.poolConnections
    loadConnections,  \* c.loadConnections
    td,               \* tunnelDialer tasks: [spawned, waiting]
    clock             \* [signals, ticks, windows] seen so far

cctx == <<cParentDone, cCtxDone>>
crst == <<cRestartMutex, cRestartCalls, cLifecycle>>
csocks == <<cNext, cOpen>>
ctasks == <<dl, pm, hd, td>>
cchans == <<msgChan, errChan>>
gauges == <<poolConnections, loadConnections>>

cliVars == <<cliToken, cctx, crst, cControl, csocks, ctasks, cchans, gauges,
             clock>>

vars == <<srvVars, cliVars>>

(***************************************************************************)
(* NewTCPServer, NewTcpMuxServer: the state after construction.            *)
(***************************************************************************)
NewTCPClient ==
    /\ cParentDone = FALSE
    /\ cCtxDone = FALSE
    /\ cRestartMutex = FALSE
    /\ cRestartCalls = 0
    /\ cLifecycle = 0
    /\ cControl = 0
    /\ cNext = 0 /\ cOpen = {}
    /\ dl = [pc |-> "none", conn |-> 0]
    /\ pm = NoPool
    /\ hd = [pc |-> "none", reader |-> "none"]
    /\ msgChan = <<>>
    /\ errChan = FALSE
    /\ poolConnections = 0
    /\ loadConnections = 0
    /\ td = [spawned |-> 0, waiting |-> {}]
    /\ clock = [signals |-> 0, ticks |-> 0, windows |-> 0]

\* The configuration the Server runs with where the port mappings are not
\* what is examined: one entry ":8=:8", whose remote address is the one of
\* RemoteAddrs; the listeners it stands for are those of LocalListening.
NoMappings == [pc |-> "none", listeners |-> <<>>]
DefaultPorts == Ports = <<<<58, 56, 61, 58, 56>>>> /\ mappings = NoMappings

NewServer ==
    /\ parentDone = FALSE
    /\ ctxDone = FALSE
    /\ restartMutex = FALSE
    /\ restartCalls = 0
    /\ lifecycle = 0
    /\ controlChannel = NoConn
    /\ tunnelChannel = <<>>
    /\ localChannel = <<>>
    /\ reqNewConnChan = 0
    /\ startPc = "init"
    /\ hs = [pc |-> "none", conn |-> NoConn]
    /\ tl = NoListener
    /\ ch = [pc |-> "none", reader |-> "none", failed |-> FALSE, reqs |-> 0]
    /\ wk = [w \in Workers |-> NoWorker]
    /\ sn = [s \in 1 .. MaxTunnel |-> NoSession]
    /\ nextT = 0 /\ openT = {}
    /\ nextU = 0 /\ openU = {}
    /\ copying = {} /\ copied = {}

(***************************************************************************)
(* Start: spawn the tunnel listener and enter channelHandshake.            *)
(***************************************************************************)
Start ==
    /\ startPc = "init"
    /\ startPc' = "handshake"
    /\ hs' = [pc |-> "wait", conn |-> NoConn]
    /\ UNCHANGED <<cliVars, config, tl, ctxs, rst, controlChannel, chans, ch, wk, sn,
                   socks, pairs>>

\* The tunnel listener accepts from Start until the context is cancelled.
TunnelListening == startPc # "init" /\ ~ctxDone

\* The port listeners are started by Start once the control channel is set.
LocalListening == startPc = "done" /\ controlChannel # NoConn /\ ~ctxDone

\* The parent context is cancelled, and with it the derived s.ctx.
ParentCancel ==
    /\ ~parentDone
    /\ parentDone' = TRUE
    /\ ctxDone' = TRUE
    /\ UNCHANGED <<cliVars, config, tl, rst, controlChannel, chans, tasks, socks, pairs>>

(***************************************************************************)
(* acceptTunnelConn: one accepted connection.                              *)
(***************************************************************************)
\* A plain send s.tunnelChannel <- conn, which waits for room in the channel.
SendTunnel(conn) ==
    /\ Len(tunnelChannel) < ChannelSize
    /\ tunnelChannel' = Append(tunnelChannel, conn)
    /\ openT' = openT \cup {conn.id}

\* select { case s.tunnelChannel <- conn: default: conn.Close() }
OfferTunnel(conn) ==
    IF Len(tunnelChannel) < ChannelSize
    THEN /\ tunnelChannel' = Append(tunnelChannel, conn)
         /\ openT' = openT \cup {conn.id}
    ELSE UNCHANGED <<tunnelChannel, openT>>

\* select { case s.handshakeChannel <- conn: default: conn.Close() }: the
\* channel is unbuffered, the send succeeds when channelHandshake is waiting.
OfferHandshake(conn) ==
    IF startPc = "handshake" /\ hs.pc = "wait"
    THEN /\ hs' = [pc |-> "busy", conn |-> conn]
         /\ openT' = openT \cup {conn.id}
    ELSE UNCHANGED <<hs, openT>>

\* An acceptor without the check of the peer address.
NeverSuspicious(ip) == FALSE

\* if s.controlChannel != nil && <its remote IP> != <the connection's>
Suspicious(ip) == controlChannel # NoConn /\ controlChannel.ip # ip

AcceptTunnelConn(ip, hello) ==
    /\ TunnelListening
    /\ nextT < MaxTunnel
    /\ nextT' = nextT + 1
    /\ LET conn == [id |-> nextT + 1, ip |-> ip, hello |-> hello]
       IN  IF Suspicious(ip)
           THEN \* suspicious peer: closed
                UNCHANGED <<tunnelChannel, openT, hs>>
           ELSE IF variant = "mux" /\ controlChannel = NoConn
                THEN OfferHandshake(conn) /\ UNCHANGED tunnelChannel
                ELSE OfferTunnel(conn) /\ UNCHANGED hs
    /\ UNCHANGED <<config, tl, ctxs, rst, controlChannel, localChannel,
                   reqNewConnChan, startPc, ch, wk, sn, nextU, openU, pairs>>

\* A peer writes a hello only on a connection it means as the control
\* channel; the Server reads nothing from a connection accepted later.
TunnelArrive ==
    \E ip \in PeerIPs, hello \in Hellos :
        /\ (controlChannel # NoConn => hello = <<>>)
        /\ AcceptTunnelConn(ip, hello)
        /\ UNCHANGED cliVars

(***************************************************************************)
(* channelHandshake.                                                       *)
(***************************************************************************)
\* case conn := <-s.tunnelChannel (plain TCP)
HandshakeRecv ==
    /\ variant = "tcp"
    /\ startPc = "handshake" /\ hs.pc = "wait"
    /\ tunnelChannel # <<>>
    /\ hs' = [pc |-> "busy", conn |-> Head(tunnelChannel)]
    /\ tunnelChannel' = Tail(tunnelChannel)
    /\ UNCHANGED <<cliVars, config, tl, ctxs, rst, controlChannel, localChannel,
                   reqNewConnChan, startPc, ch, wk, sn, socks, pairs>>

\* A handshake that takes whatever it read.
HandshakeAcceptsAll(hello) == TRUE

\* The checks of channelHandshake on what it read: tag, error, token.
HandshakeAccepts(hello) ==
    LET r == ReceiveBinaryTransportString(hello)
    IN  /\ r.transport = SG_Chan
        /\ ~r.err
        /\ r.msg = Token

\* A handshake loop that goes on to the next connection after installing one.
HandshakeContinues == FALSE

\* After s.controlChannel = conn, channelHandshake returns.
HandshakeReturns == TRUE

\* ioOk: SetReadDeadline and the echo of the token succeed.
HandshakeEval(ioOk) ==
    /\ startPc = "handshake" /\ hs.pc = "busy"
    /\ IF HandshakeAccepts(hs.conn.hello) /\ ioOk
       THEN /\ controlChannel' = hs.conn
            /\ IF HandshakeReturns
               THEN \* Start goes on: parsePortMappings, channelHandler,
                    \* the handle loops
                    /\ hs' = [pc |-> "done", conn |-> NoConn]
                    /\ startPc' = "done"
                    /\ ch' = [pc |-> "run", reader |-> "reading", failed |-> FALSE, reqs |-> 0]
                    /\ wk' = [w \in Workers |-> IdleWorker]
               ELSE /\ hs' = [pc |-> "wait", conn |-> NoConn]
                    /\ UNCHANGED <<startPc, ch, wk>>
            /\ UNCHANGED openT
       ELSE \* conn.Close(); continue
            /\ openT' = openT \ {hs.conn.id}
            /\ hs' = [pc |-> "wait", conn |-> NoConn]
            /\ UNCHANGED <<controlChannel, startPc, ch, wk>>
    /\ UNCHANGED <<cliVars, config, tl, ctxs, rst, chans, sn, nextT, nextU, openU, pairs>>

\* case <-s.ctx.Done(): return; Start finds controlChannel nil and ends.
HandshakeCancel ==
    /\ startPc = "handshake" /\ hs.pc = "wait"
    /\ ctxDone
    /\ hs' = [pc |-> "done", conn |-> NoConn]
    /\ startPc' = "done"
    /\ UNCHANGED <<cliVars, config, tl, ctxs, rst, controlChannel, chans, ch, wk, sn,
                   socks, pairs>>

(***************************************************************************)
(* acceptLocalConn: one accepted user connection.                          *)
(***************************************************************************)
\* select { case s.reqNewConnChan <- struct{}{}: default: }
OfferReqNewConn ==
    IF reqNewConnChan < ChannelSize THEN reqNewConnChan + 1 ELSE reqNewConnChan

AcceptLocalConn(remoteAddr) ==
    /\ LocalListening
    /\ nextU < MaxUser
    /\ nextU' = nextU + 1
    /\ IF Len(localChannel) < ChannelSize
       THEN /\ localChannel' = Append(localChannel,
                                 [conn |-> nextU + 1, remoteAddr |-> remoteAddr])
            /\ openU' = openU \cup {nextU + 1}
            /\ reqNewConnChan' = IF variant = "tcp" THEN OfferReqNewConn
                                                     ELSE reqNewConnChan
       ELSE \* the channel is full: closed
            UNCHANGED <<localChannel, openU, reqNewConnChan>>
    /\ UNCHANGED <<cliVars, config, tl, ctxs, rst, controlChannel, tunnelChannel, tasks,
                   nextT, openT, pairs>>

LocalArrive == \E remoteAddr \in RemoteAddrs : AcceptLocalConn(remoteAddr)

(***************************************************************************)
(* handleLoop (plain TCP).                                                 *)
(***************************************************************************)
\* case localConn := <-s.localChannel
HandleLoopLocal(w) ==
    /\ variant = "tcp"
    /\ wk[w].pc = "idle"
    /\ localChannel # <<>>
    /\ wk' = [wk EXCEPT ![w] = [pc |-> "pairing", local |-> Head(localChannel),
                                sess |-> 0]]
    /\ localChannel' = Tail(localChannel)
    /\ UNCHANGED <<cliVars, config, tl, ctxs, rst, controlChannel, tunnelChannel,
                   reqNewConnChan, startPc, hs, ch, sn, socks, pairs>>

\* A user connection handed to a copier with a tunnel connection (or a
\* stream of a mux session) on which `frame` was written first.
Pairing(local, tunnel, frame) ==
    [user |-> local.conn, tunnel |-> tunnel, remoteAddr |-> local.remoteAddr,
     frame |-> frame]

\* The frame handleLoop writes on the tunnel connection it has taken.
TargetFrame(remoteAddr) == SendBinaryTransportString(remoteAddr, SG_TCP)

\* A handle loop that stays in its inner loop with the same localConn.
KeepsPairing(w) == wk[w]

\* go utils.TCPConnectionHandler(...); break loop
AfterPairing(w) == IdleWorker

\* A handle loop that gives up its localConn when the send fails.
BreaksLoop(w) == IdleWorker

\* tunnelConn.Close(); continue loop: the same localConn, the next receive
\* from s.tunnelChannel.
ContinueLoop(w) == wk[w]

\* case tunnelConn := <-s.tunnelChannel
HandleLoopTunnel(w, sendOk) ==
    /\ variant = "tcp"
    /\ wk[w].pc = "pairing"
    /\ tunnelChannel # <<>>
    /\ tunnelChannel' = Tail(tunnelChannel)
    /\ LET p == Pairing(wk[w].local, Head(tunnelChannel).id,
                        TargetFrame(wk[w].local.remoteAddr))
       IN  IF sendOk
           THEN /\ copying' = copying \cup {p}
                /\ copied' = copied \cup {p}
                /\ wk' = [wk EXCEPT ![w] = AfterPairing(w)]
                /\ UNCHANGED openT
           ELSE \* tunnelConn.Close(); continue loop
                /\ openT' = openT \ {p.tunnel}
                /\ wk' = [wk EXCEPT ![w] = ContinueLoop(w)]
                /\ UNCHANGED pairs
    /\ UNCHANGED <<cliVars, config, tl, ctxs, rst, controlChannel, localChannel,
                   reqNewConnChan, startPc, hs, ch, sn, nextT, nextU, openU>>

\* case <-s.ctx.Done(): return, in either select of either handleLoop.
HandleLoopCancel(w) ==
    /\ wk[w].pc \in {"idle", "pairing"}
    /\ ctxDone
    /\ wk' = [wk EXCEPT ![w] = [NoWorker EXCEPT !.pc = "exited"]]
    /\ UNCHANGED <<cliVars, config, tl, ctxs, rst, controlChannel, chans, startPc, hs, ch,
                   sn, socks, pairs>>

Streaming(s) == {p \in copying : p.tunnel = s}

\* utils.TCPConnectionHandler ends: the user connection and the tunnel
\* connection (plain TCP) or the stream (mux) are closed. In mux the copier
\* then sends on `done`; a retired session handler that has now heard from
\* every copier goes on to session.Close().
CopierDone(p) ==
    /\ p \in copying
    /\ copying' = copying \ {p}
    /\ openU' = openU \ {p.user}
    /\ IF variant = "tcp"
       THEN openT' = openT \ {p.tunnel} /\ UNCHANGED sn
       ELSE IF sn[p.tunnel].pc = "retired" /\ Streaming(p.tunnel) = {p}
            THEN /\ openT' = openT \ {p.tunnel}
                 /\ sn' = [sn EXCEPT ![p.tunnel].pc = "closed"]
            ELSE UNCHANGED <<openT, sn>>
    /\ UNCHANGED <<cliVars, config, tl, ctxs, rst, controlChannel, chans, startPc, hs, ch,
                   wk, nextT, nextU, copied>>

(***************************************************************************)
(* handleLoop and handleSession (mux).                                     *)
(***************************************************************************)
\* case session := <-s.tunnelChannel: go s.handleSession(session, next); <-next
MuxHandleLoop(w) ==
    /\ variant = "mux"
    /\ wk[w].pc = "idle"
    /\ tunnelChannel # <<>>
    /\ LET s == Head(tunnelChannel).id
       IN  /\ wk' = [wk EXCEPT ![w] = [pc |-> "waitNext", local |-> NoLocal,
                                       sess |-> s]]
           /\ sn' = [sn EXCEPT ![s] = [NoSession EXCEPT !.pc = "run",
                                                        !.worker = w]]
    /\ tunnelChannel' = Tail(tunnelChannel)
    /\ UNCHANGED <<cliVars, config, tl, ctxs, rst, controlChannel, localChannel,
                   reqNewConnChan, startPc, hs, ch, socks, pairs>>

\* case incomingConn := <-s.localChannel
SessionRecv(s) ==
    /\ sn[s].pc = "run"
    /\ localChannel # <<>>
    /\ sn' = [sn EXCEPT ![s].pc = "opening", ![s].local = Head(localChannel)]
    /\ localChannel' = Tail(localChannel)
    /\ UNCHANGED <<cliVars, config, tl, ctxs, rst, controlChannel, tunnelChannel,
                   reqNewConnChan, startPc, hs, ch, wk, socks, pairs>>

\* A retire that leaves the handle loop waiting on `next`.
RetireKeepsWorker(s) ==
    /\ UNCHANGED wk
    /\ reqNewConnChan' = OfferReqNewConn

\* next <- struct{}{} and the offer of a REQ_CHAN token: the tail of
\* finalizeSession and of handleSessionError before the wait for the copiers.
Retire(s) ==
    /\ wk' = [wk EXCEPT ![sn[s].worker] = IdleWorker]
    /\ reqNewConnChan' = OfferReqNewConn

\* handleSessionError after the requeue: with no copier left to wait for,
\* session.Close() follows at once.
RetireOnError(s, opened) ==
    /\ Retire(s)
    /\ IF Streaming(s) = {}
       THEN /\ openT' = openT \ {s}
            /\ sn' = [sn EXCEPT ![s].pc = "closed", ![s].local = NoLocal,
                                ![s].opened = opened]
       ELSE /\ sn' = [sn EXCEPT ![s].pc = "retired", ![s].local = NoLocal,
                                ![s].opened = opened]
            /\ UNCHANGED openT

\* A session handler that never retires.
SessionNeverFull(counter) == FALSE

\* if counter == s.config.MuxCon
SessionFull(counter) == counter = MuxCon

\* utils.SendBinaryString(stream, incomingConn.remoteAddr), then the copier.
StreamPairing(s) ==
    Pairing(sn[s].local, s, SendBinaryString(sn[s].local.remoteAddr))

\* Streams opened on the session once session.OpenStream() has returned.
Opened(s, res) == IF res = "openErr" THEN sn[s].opened ELSE sn[s].opened + 1

\* session.OpenStream(), utils.SendBinaryString(stream, remoteAddr), the
\* copier, counter++, and finalizeSession at the cap; or handleSessionError.
SessionOpen(s, res) ==
    /\ sn[s].pc = "opening"
    /\ IF res = "ok"
       THEN /\ copying' = copying \cup {StreamPairing(s)}
            /\ copied' = copied \cup {StreamPairing(s)}
            /\ UNCHANGED <<localChannel, openT>>
            /\ IF SessionFull(sn[s].counter + 1)
               THEN /\ sn' = [sn EXCEPT ![s].pc = "retired",
                                        ![s].counter = @ + 1,
                                        ![s].opened = Opened(s, res),
                                        ![s].local = NoLocal]
                    /\ Retire(s)
               ELSE /\ sn' = [sn EXCEPT ![s].pc = "run",
                                        ![s].counter = @ + 1,
                                        ![s].opened = Opened(s, res),
                                        ![s].local = NoLocal]
                    /\ UNCHANGED <<wk, reqNewConnChan>>
       ELSE \* handleSessionError: s.localChannel <- *incomingConn blocks
            \* while the channel is full
            /\ UNCHANGED pairs
            /\ IF Len(localChannel) < ChannelSize
               THEN /\ localChannel' = Append(localChannel, sn[s].local)
                    /\ RetireOnError(s, Opened(s, res))
               ELSE /\ sn' = [sn EXCEPT ![s].pc = "requeue",
                                        ![s].opened = Opened(s, res)]
                    /\ UNCHANGED <<localChannel, wk, reqNewConnChan, openT>>
    /\ UNCHANGED <<cliVars, config, tl, ctxs, rst, controlChannel, tunnelChannel,
                   startPc, hs, ch, nextT, nextU, openU>>

\* handleSessionError, once s.localChannel has room.
SessionRequeue(s) ==
    /\ sn[s].pc = "requeue"
    /\ Len(localChannel) < ChannelSize
    /\ localChannel' = Append(localChannel, sn[s].local)
    /\ RetireOnError(s, sn[s].opened)
    /\ UNCHANGED <<cliVars, config, tl, ctxs, rst, controlChannel, tunnelChannel,
                   startPc, hs, ch, nextT, nextU, openU, pairs>>

\* case <-s.ctx.Done(): wait for the copiers, then return. Nothing is closed
\* and nothing is sent on `next`.
SessionCancel(s) ==
    /\ sn[s].pc = "run"
    /\ ctxDone
    /\ sn' = [sn EXCEPT ![s].pc = "drain"]
    /\ UNCHANGED <<cliVars, config, tl, ctxs, rst, controlChannel, chans, startPc, hs, ch,
                   wk, socks, pairs>>

(***************************************************************************)
(* channelHandler.                                                         *)
(***************************************************************************)
\* A write on the control channel can succeed only while it is open.
WriteOutcomes == IF controlChannel.id \in openT THEN BOOLEAN ELSE {FALSE}

\* A handler that goes on after a failed write.
HandlerIgnores ==
    /\ restartCalls' = restartCalls
    /\ ch' = [ch EXCEPT !.failed = TRUE]

\* The error path of every case: go s.Restart(); return
HandlerRestart ==
    /\ restartCalls' = restartCalls + 1
    /\ ch' = [ch EXCEPT !.pc = "done", !.failed = TRUE]

\* A handler that takes the token and writes nothing.
SwallowsToken == UNCHANGED <<restartCalls, ch>>

\* utils.SendBinaryByte(s.controlChannel, utils.SG_Chan) has succeeded: one
\* more SG_Chan is on the control channel.
EmitsReqChan ==
    /\ restartCalls' = restartCalls
    /\ ch' = [ch EXCEPT !.reqs = @ + 1]

\* case <-s.ctx.Done(): SendBinaryByte(SG_Closed), best effort; return
HandlerCancel ==
    /\ ch.pc = "run"
    /\ ctxDone
    /\ ch' = [ch EXCEPT !.pc = "done"]
    /\ UNCHANGED <<cliVars, config, tl, ctxs, rst, controlChannel, chans, startPc, hs, wk,
                   sn, socks, pairs>>

\* case <-s.reqNewConnChan: SendBinaryByte(SG_Chan)
HandlerReqNewConn(ok) ==
    /\ ch.pc = "run"
    /\ reqNewConnChan > 0
    /\ reqNewConnChan' = reqNewConnChan - 1
    /\ ok \in WriteOutcomes
    /\ IF ok THEN EmitsReqChan ELSE HandlerRestart
    /\ UNCHANGED <<cliVars, config, tl, ctxs, restartMutex, lifecycle, controlChannel,
                   tunnelChannel, localChannel, startPc, hs, wk, sn, socks,
                   pairs>>

\* case <-ticker.C: SendBinaryByte(SG_HB)
HandlerHeartbeat(ok) ==
    /\ ch.pc = "run"
    /\ ok \in WriteOutcomes
    /\ IF ok THEN UNCHANGED <<restartCalls, ch>> ELSE HandlerRestart
    /\ UNCHANGED <<cliVars, config, tl, ctxs, restartMutex, lifecycle, controlChannel,
                   chans, startPc, hs, wk, sn, socks, pairs>>

\* case result := <-resultChan: the reader goroutine reads one byte, hands
\* it over and ends.
HandlerResult(res) ==
    /\ ch.pc = "run" /\ ch.reader = "reading"
    /\ IF res \in {"err", "closed"}
       THEN /\ restartCalls' = restartCalls + 1
            /\ ch' = [pc |-> "done", reader |-> "done", failed |-> res = "err",
                      reqs |-> ch.reqs]
       ELSE /\ ch' = [ch EXCEPT !.reader = "done"]
            /\ UNCHANGED restartCalls
    /\ UNCHANGED <<cliVars, config, tl, ctxs, restartMutex, lifecycle, controlChannel,
                   chans, startPc, hs, wk, sn, socks, pairs>>

(***************************************************************************)
(* Restart.                                                                *)
(***************************************************************************)
\* A caller that releases the mutex although it did not take it.
UnlockOnSkip == restartMutex' = FALSE /\ UNCHANGED <<ctxDone, openT>>

\* if !s.restartMutex.TryLock() { return }: restart already in progress.
SkipRestart == UNCHANGED <<restartMutex, ctxDone, openT>>

\* TryLock; s.cancel(); s.controlChannel.Close(); then time.Sleep.
Restart ==
    /\ restartCalls > 0
    /\ restartCalls' = restartCalls - 1
    /\ IF restartMutex
       THEN SkipRestart
       ELSE /\ lifecycle < MaxRestart
            /\ restartMutex' = TRUE
            /\ ctxDone' = TRUE
            /\ openT' = openT \ {controlChannel.id}
    /\ UNCHANGED <<cliVars, config, tl, parentDone, lifecycle, controlChannel, chans,
                   tasks, nextT, nextU, openU, pairs>>

\* time.Sleep(2 * time.Second): the tasks parked in a select on ctx.Done()
\* and the pending Restart calls have run by the time it elapses. A handle
\* loop waiting on `next` and a session handler waiting for its copiers or
\* for room in the local channel are not parked in such a select.
Drained ==
    /\ restartCalls = 0
    /\ startPc = "done"
    /\ ch.pc \in {"none", "done"}
    /\ \A w \in Workers : wk[w].pc \in {"none", "exited", "waitNext"}
    /\ \A s \in 1 .. MaxTunnel : sn[s].pc \notin {"run", "opening"}

\* A Restart that derives its context from context.Background().
DetachedContext == FALSE

\* ctx, cancel := context.WithCancel(s.parentctx): a context derived from a
\* cancelled parent is cancelled from the start.
DerivedContext == parentDone

\* Fresh context and channels, controlChannel = nil, go s.Start(). A
\* session handler still blocked on the old local channel stays blocked.
RestartEnd ==
    /\ restartMutex
    /\ Drained
    /\ restartMutex' = FALSE
    /\ ctxDone' = DerivedContext
    /\ lifecycle' = lifecycle + 1
    /\ tunnelChannel' = <<>>
    /\ localChannel' = <<>>
    /\ reqNewConnChan' = 0
    /\ controlChannel' = NoConn
    /\ startPc' = "init"
    /\ hs' = [pc |-> "none", conn |-> NoConn]
    /\ ch' = [pc |-> "none", reader |-> "none", failed |-> FALSE, reqs |-> 0]
    /\ wk' = [w \in Workers |-> NoWorker]
    /\ sn' = [s \in 1 .. MaxTunnel |->
                IF sn[s].pc = "requeue" THEN [sn[s] EXCEPT !.pc = "stuck"]
                                        ELSE sn[s]]
    /\ UNCHANGED <<cliVars, config, tl, parentDone, restartCalls, socks, pairs>>

(***************************************************************************)
(* The Server: plain TCP, TCP-mux, and either.                             *)
(***************************************************************************)
Common ==
    \/ Start
    \/ ParentCancel
    \/ TunnelArrive
    \/ \E ioOk \in BOOLEAN : HandshakeEval(ioOk)
    \/ HandshakeCancel
    \/ LocalArrive
    \/ \E w \in Workers : HandleLoopCancel(w)
    \/ \E p \in copying : CopierDone(p)
    \/ HandlerCancel
    \/ \E ok \in BOOLEAN : HandlerReqNewConn(ok)
    \/ \E ok \in BOOLEAN : HandlerHeartbeat(ok)
    \/ \E res \in {"err", "closed", "byte"} : HandlerResult(res)
    \/ Restart
    \/ RestartEnd

TcpOnly ==
    \/ HandshakeRecv
    \/ \E w \in Workers : HandleLoopLocal(w)
    \/ \E w \in Workers, sendOk \in BOOLEAN : HandleLoopTunnel(w, sendOk)

MuxOnly ==
    \/ \E w \in Workers : MuxHandleLoop(w)
    \/ \E s \in 1 .. MaxTunnel : SessionRecv(s)
    \/ \E s \in 1 .. MaxTunnel, res \in {"ok", "openErr", "sendErr"} :
           SessionOpen(s, res)
    \/ \E s \in 1 .. MaxTunnel : SessionRequeue(s)
    \/ \E s \in 1 .. MaxTunnel : SessionCancel(s)

InitTcp ==
    variant = "tcp" /\ DefaultPorts /\ NewServer /\ cliToken = Token /\ NewTCPClient
InitMux ==
    variant = "mux" /\ DefaultPorts /\ NewServer /\ cliToken = Token /\ NewTCPClient
Init == InitTcp \/ InitMux

NextTcp == Common \/ TcpOnly
NextMux == Common \/ MuxOnly
Next == Common \/ TcpOnly \/ MuxOnly

SpecTcp == InitTcp /\ [][NextTcp]_vars
SpecMux == InitMux /\ [][NextMux]_vars
Spec == Init /\ [][Next]_vars

(***************************************************************************)
(* The Client: Start and channelDialer.                                    *)
(***************************************************************************)
ClientStart ==
    /\ dl.pc = "none"
    /\ dl' = [pc |-> "dial", conn |-> 0]
    /\ UNCHANGED <<srvVars, cliToken, cctx, crst, cControl, csocks, pm, hd, td, cchans,
                   gauges, clock>>

ClientParentCancel ==
    /\ ~cParentDone
    /\ cParentDone' = TRUE
    /\ cCtxDone' = TRUE
    /\ UNCHANGED <<srvVars, cliToken, crst, cControl, csocks, ctasks, cchans, gauges,
                   clock>>

\* TcpDialer, then utils.SendBinaryString(tunnelTCPConn, c.config.Token) and
\* SetReadDeadline. A failed dial sleeps and tries again.
DialerSends(ok) ==
    /\ dl.pc = "dial"
    /\ ~cCtxDone
    /\ IF ok
       THEN /\ cNext < MaxDial
            /\ cNext' = cNext + 1
            /\ cOpen' = cOpen \cup {cNext + 1}
            /\ dl' = [pc |-> "await", conn |-> cNext + 1]
       ELSE UNCHANGED <<csocks, dl>>
    /\ UNCHANGED <<cliToken, cctx, crst, cControl, pm, hd, td, cchans, gauges,
                   clock>>

\* The dial reaches some Server.
ChannelDial(ok) == DialerSends(ok) /\ UNCHANGED srvVars

\* case <-c.ctx.Done(): return
DialerCancel ==
    /\ dl.pc = "dial"
    /\ cCtxDone
    /\ dl' = [pc |-> "done", conn |-> 0]
    /\ UNCHANGED <<srvVars, cliToken, cctx, crst, cControl, csocks, pm, hd, td, cchans,
                   gauges, clock>>

\* message, err := utils.ReceiveBinaryString(...); message == c.config.Token
DialerAccepts(reply) ==
    LET r == ReceiveBinaryString(reply)
    IN  ~r.err /\ r.msg = cliToken

\* `reply` is what the Server wrote before the read deadline, <<>> if
\* nothing. On success poolMaintainer and channelHandler are started, and
\* poolMaintainer spawns its first ConnPoolSize dialers.
DialerRecv(reply) ==
    /\ dl.pc = "await"
    /\ IF DialerAccepts(reply)
       THEN /\ cControl' = dl.conn
            /\ dl' = [pc |-> "done", conn |-> 0]
            /\ pm' = [pc |-> "run", newPoolSize |-> ConnPoolSize,
                      poolConnectionsSum |-> 0]
            /\ td' = [td EXCEPT !.spawned = @ + ConnPoolSize]
            /\ hd' = [pc |-> "run", reader |-> "run"]
            /\ UNCHANGED cOpen
       ELSE \* tunnelTCPConn.Close(); sleep; continue
            /\ cOpen' = cOpen \ {dl.conn}
            /\ dl' = [pc |-> "dial", conn |-> 0]
            /\ UNCHANGED <<cControl, pm, td, hd>>
    /\ UNCHANGED <<srvVars, cliToken, cctx, crst, cNext, cchans, gauges, clock>>

(***************************************************************************)
(* poolMaintainer.                                                         *)
(***************************************************************************)
\* Go's integer division truncates toward zero.
GoDiv(a, b) == IF a >= 0 THEN a \div b ELSE -((-a) \div b)

\* case <-tickerPool.C
PoolTick ==
    /\ pm.pc = "run"
    /\ clock.ticks < MaxTick
    /\ clock' = [clock EXCEPT !.ticks = @ + 1]
    /\ pm' = [pm EXCEPT !.poolConnectionsSum = @ + poolConnections]
    /\ UNCHANGED <<srvVars, cliToken, cctx, crst, cControl, csocks, dl, hd, td, cchans,
                   gauges>>

\* A shrink that would leave fewer than ConnPoolSize connections.
ShrinkAlways(newPoolSize) == TRUE

\* ... && newPoolSize > c.config.ConnPoolSize
ShrinkAllowed(newPoolSize) == newPoolSize > ConnPoolSize

\* case <-tickerLoad.C
PoolLoad ==
    /\ pm.pc = "run"
    /\ clock.windows < MaxWindow
    /\ clock' = [clock EXCEPT !.windows = @ + 1]
    /\ loadConnections' = 0
    /\ LET load == GoDiv(loadConnections + 59, 60)
           poolConnectionsAvg == GoDiv(pm.poolConnectionsSum + 59, 60)
       IN  IF GoDiv(load + 4, 5) > poolConnectionsAvg
           THEN /\ pm' = [pm EXCEPT !.newPoolSize = @ + 1,
                                    !.poolConnectionsSum = 0]
                /\ td' = [td EXCEPT !.spawned = @ + 1]
           ELSE IF /\ GoDiv(load + 3, 4) < poolConnectionsAvg
                   /\ ShrinkAllowed(pm.newPoolSize)
                THEN \* c.controlFlow <- struct{}{} on an unbuffered channel
                     /\ pm' = [pm EXCEPT !.newPoolSize = @ - 1,
                                         !.poolConnectionsSum = 0,
                                         !.pc = "send"]
                     /\ UNCHANGED td
                ELSE /\ pm' = [pm EXCEPT !.poolConnectionsSum = 0]
                     /\ UNCHANGED td
    /\ UNCHANGED <<srvVars, cliToken, cctx, crst, cControl, csocks, dl, hd, cchans,
                   poolConnections>>

\* case <-c.ctx.Done(): return
PoolCancel ==
    /\ pm.pc = "run"
    /\ cCtxDone
    /\ pm' = [pm EXCEPT !.pc = "done"]
    /\ UNCHANGED <<srvVars, cliToken, cctx, crst, cControl, csocks, dl, hd, td, cchans,
                   gauges, clock>>

(***************************************************************************)
(* tunnelDialer.                                                           *)
(***************************************************************************)
\* TcpDialer; atomic.AddInt32(&c.poolConnections, 1)
TunnelDialerDial(ok) ==
    /\ td.spawned > 0
    /\ IF ok
       THEN /\ cNext < MaxDial
            /\ cNext' = cNext + 1
            /\ cOpen' = cOpen \cup {cNext + 1}
            /\ poolConnections' = poolConnections + 1
            /\ td' = [spawned |-> td.spawned - 1,
                      waiting |-> td.waiting \cup {cNext + 1}]
       ELSE /\ td' = [td EXCEPT !.spawned = @ - 1]
            /\ UNCHANGED <<csocks, poolConnections>>
    /\ UNCHANGED <<srvVars, cliToken, cctx, crst, cControl, dl, pm, hd, cchans,
                   loadConnections, clock>>

\* remoteAddr, err := utils.ReceiveBinaryString(tcpConn)
TunnelDialerDecode(frame) == ReceiveBinaryString(frame)

\* The read returns with what the Server wrote (<<>>: it closed the
\* connection); atomic.AddInt32(&c.poolConnections, -1); on an error the
\* connection is closed, else it goes to localDialer.
TunnelDialerRecv(c, frame) ==
    /\ c \in td.waiting
    /\ td' = [td EXCEPT !.waiting = @ \ {c}]
    /\ poolConnections' = poolConnections - 1
    /\ cOpen' = IF TunnelDialerDecode(frame).err THEN cOpen \ {c} ELSE cOpen
    /\ UNCHANGED <<srvVars, cliToken, cctx, crst, cControl, cNext, dl, pm, hd, cchans,
                   loadConnections, clock>>

(***************************************************************************)
(* channelHandler of the Client.                                           *)
(***************************************************************************)
\* The reader goroutine: msg, err := utils.ReceiveBinaryByte(c.controlChannel)
ClientReader(msg) ==
    /\ hd.reader = "run"
    /\ clock.signals < MaxSignal
    /\ clock' = [clock EXCEPT !.signals = @ + 1]
    /\ msgChan' = Append(msgChan, msg)
    /\ UNCHANGED <<srvVars, cliToken, cctx, crst, cControl, csocks, ctasks, errChan,
                   gauges>>

ClientReaderErr ==
    /\ hd.reader = "run"
    /\ hd' = [hd EXCEPT !.reader = "done"]
    /\ errChan' = TRUE
    /\ UNCHANGED <<srvVars, cliToken, cctx, crst, cControl, csocks, dl, pm, td, msgChan,
                   gauges, clock>>

\* go c.Restart(); return
ClientHandlerRestart ==
    /\ cRestartCalls' = cRestartCalls + 1
    /\ hd' = [hd EXCEPT !.pc = "done"]

\* A handler that dials on every SG_Chan and leaves controlFlow alone.
ReqChanDials ==
    /\ loadConnections' = loadConnections + 1
    /\ td' = [td EXCEPT !.spawned = @ + 1]
    /\ UNCHANGED pm

\* case utils.SG_Chan: the load counter, then the select on controlFlow.
OnReqChan ==
    /\ loadConnections' = loadConnections + 1
    /\ IF pm.pc = "send"
       THEN \* case <-c.controlFlow
            pm' = [pm EXCEPT !.pc = "run"] /\ UNCHANGED td
       ELSE \* default: go c.tunnelDialer()
            td' = [td EXCEPT !.spawned = @ + 1] /\ UNCHANGED pm

\* case msg := <-msgChan
ClientHandlerMsg ==
    /\ hd.pc = "run"
    /\ msgChan # <<>>
    /\ msgChan' = Tail(msgChan)
    /\ IF Head(msgChan) = SG_Chan
       THEN OnReqChan /\ UNCHANGED <<cRestartCalls, hd>>
       ELSE IF Head(msgChan) = SG_HB
            THEN UNCHANGED <<loadConnections, pm, td, cRestartCalls, hd>>
            ELSE \* SG_Closed, or an unexpected byte
                 ClientHandlerRestart /\ UNCHANGED <<loadConnections, pm, td>>
    /\ UNCHANGED <<srvVars, cliToken, cctx, cRestartMutex, cLifecycle, cControl, csocks,
                   dl, errChan, poolConnections, clock>>

\* case err := <-errChan
ClientHandlerErr ==
    /\ hd.pc = "run"
    /\ errChan
    /\ errChan' = FALSE
    /\ ClientHandlerRestart
    /\ UNCHANGED <<srvVars, cliToken, cctx, cRestartMutex, cLifecycle, cControl, csocks,
                   dl, pm, td, msgChan, gauges, clock>>

\* case <-c.ctx.Done(): SendBinaryByte(SG_Closed), best effort; return
ClientHandlerCancel ==
    /\ hd.pc = "run"
    /\ cCtxDone
    /\ hd' = [hd EXCEPT !.pc = "done"]
    /\ UNCHANGED <<srvVars, cliToken, cctx, crst, cControl, csocks, dl, pm, td, cchans,
                   gauges, clock>>

(***************************************************************************)
(* Restart of the Client.                                                  *)
(***************************************************************************)
\* if !c.restartMutex.TryLock() { return }: the client is already restarting.
ClientSkipRestart == UNCHANGED <<cRestartMutex, cCtxDone>>

\* TryLock; c.cancel(); then time.Sleep.
ClientRestart ==
    /\ cRestartCalls > 0
    /\ cRestartCalls' = cRestartCalls - 1
    /\ IF cRestartMutex
       THEN ClientSkipRestart
       ELSE /\ cLifecycle < MaxRestart
            /\ cRestartMutex' = TRUE
            /\ cCtxDone' = TRUE
    /\ UNCHANGED <<srvVars, cliToken, cParentDone, cLifecycle, cControl, csocks, ctasks,
                   cchans, gauges, clock>>

\* time.Sleep(2 * time.Second): the tasks parked in a select on ctx.Done()
\* have returned. A pool maintainer blocked on controlFlow, a reader blocked
\* on the control channel and the tunnel dialers are not parked in one.
ClientDrained ==
    /\ cRestartCalls = 0
    /\ dl.pc \in {"none", "done"}
    /\ pm.pc \in {"none", "done", "send"}
    /\ hd.pc \in {"none", "done"}

\* Fresh context, controlChannel = nil, counters 0, new controlFlow,
\* go c.Start().
ClientRestartEnd ==
    /\ cRestartMutex
    /\ ClientDrained
    /\ cRestartMutex' = FALSE
    /\ cCtxDone' = cParentDone
    /\ cLifecycle' = cLifecycle + 1
    /\ cControl' = 0
    /\ poolConnections' = 0
    /\ loadConnections' = 0
    /\ dl' = [pc |-> "dial", conn |-> 0]
    /\ pm' = NoPool
    /\ hd' = [pc |-> "none", reader |-> "none"]
    /\ msgChan' = <<>>
    /\ errChan' = FALSE
    /\ UNCHANGED <<srvVars, cliToken, cParentDone, cRestartCalls, csocks, td, clock>>

(***************************************************************************)
(* The Client against an arbitrary Server.                                 *)
(***************************************************************************)
\* What a Server may answer to the token: nothing, or a token as a plain or
\* as a tagged string.
Replies ==
    {<<>>} \cup {SendBinaryString(t) : t \in Tokens}
           \cup {SendBinaryTransportString(t, SG_Chan) : t \in Tokens}

\* What a Server may write on a tunnel connection: nothing, or an address as
\* a tagged string (handleLoop of the plain TCP Server) or as a plain one.
AddrFrames ==
    {<<>>} \cup {TargetFrame(a) : a \in RemoteAddrs}
           \cup {SendBinaryString(a) : a \in RemoteAddrs}

Signals == {SG_HB, SG_Chan, SG_Ping, SG_Closed}

NextClient ==
    \/ ClientStart
    \/ ClientParentCancel
    \/ \E ok \in BOOLEAN : ChannelDial(ok)
    \/ DialerCancel
    \/ \E reply \in Replies : DialerRecv(reply)
    \/ PoolTick
    \/ PoolLoad
    \/ PoolCancel
    \/ \E ok \in BOOLEAN : TunnelDialerDial(ok)
    \/ \E c \in td.waiting, frame \in AddrFrames : TunnelDialerRecv(c, frame)
    \/ \E msg \in Signals : ClientReader(msg)
    \/ ClientReaderErr
    \/ ClientHandlerMsg
    \/ ClientHandlerErr
    \/ ClientHandlerCancel
    \/ ClientRestart
    \/ ClientRestartEnd

SpecClient == InitTcp /\ [][NextClient]_vars

(***************************************************************************)
(* The Client's channelDialer against the plain TCP Server's handshake.    *)
(***************************************************************************)
ClientIP == 1

\* utils.SendBinaryTransportString(conn, s.config.Token, utils.SG_Chan)
HandshakeEcho == SendBinaryTransportString(Token, SG_Chan)

\* What the Server has written on the Client's connection c.
Reply(c) == IF controlChannel.id = c THEN HandshakeEcho ELSE <<>>

\* The Client's dial is accepted by the tunnel listener and the token frame
\* is delivered.
LinkDial ==
    /\ cNext = nextT
    /\ DialerSends(TRUE)
    /\ AcceptTunnelConn(ClientIP, ClientHello(cliToken))

\* Nobody listens on the tunnel port.
LinkDialFail ==
    /\ ~TunnelListening
    /\ DialerSends(FALSE)
    /\ UNCHANGED srvVars

\* The Client's read returns: with the echo, or with an error when the
\* Server closed the connection or wrote nothing within the deadline.
LinkRecv == DialerRecv(Reply(dl.conn))

InitLink ==
    variant = "tcp" /\ DefaultPorts /\ NewServer /\ cliToken \in Tokens /\ NewTCPClient

NextLink ==
    \/ Start
    \/ ParentCancel
    \/ HandshakeRecv
    \/ \E ioOk \in BOOLEAN : HandshakeEval(ioOk)
    \/ HandshakeCancel
    \/ ClientStart
    \/ ClientParentCancel
    \/ LinkDial
    \/ LinkDialFail
    \/ LinkRecv
    \/ DialerCancel

SpecLink == InitLink /\ [][NextLink]_vars

(***************************************************************************)
(* Properties.                                                             *)
(***************************************************************************)

\* C1: in the plain TCP and the TCP-mux Server the control-channel handle is
\* installed at most once per lifecycle: an installed handle is never
\* replaced by another connection, it is only reset to nil by the Restart
\* that begins the next lifecycle; and while a handle is installed the
\* handshake loop has ended, so no later inbound connection is handshaken.
C1_InstalledOnce ==
    /\ [](controlChannel # NoConn => hs.pc = "done")
    /\ [][controlChannel # NoConn =>
            \/ controlChannel' = controlChannel
            \/ controlChannel' = NoConn /\ lifecycle' = lifecycle + 1]_vars

\* C1 happens: a control channel is installed and a later connection from
\* the same peer has been accepted and queued.
C1_Witness ==
    /\ controlChannel # NoConn
    /\ tunnelChannel # <<>>
    /\ Head(tunnelChannel).id > controlChannel.id

\* C2: with the same token on both sides the handshake succeeds: the frame
\* the Client sent passes the checks of channelHandshake when the Server
\* reads it, and the echo the Server wrote passes the check of channelDialer
\* when the Client reads it.
C2_SameTokenHandshake ==
    cliToken = Token =>
        /\ (hs.pc = "busy" => HandshakeAccepts(hs.conn.hello))
        /\ (dl.pc = "await" /\ controlChannel.id = dl.conn
                => DialerAccepts(Reply(dl.conn)))

\* Connections the Server holds for a handshake that has not been decided.
PendingHandshake ==
    {hs.conn.id} \cup {tunnelChannel[i].id : i \in DOMAIN tunnelChannel}

C4_PairedOnce ==
    /\ \A p, q \in copied :
           (p.user = q.user \/ p.tunnel = q.tunnel) => p = q
    /\ \A w \in Workers :
           wk[w].pc = "pairing" =>
               /\ \A p \in copied : p.user # wk[w].local.conn
               /\ \A v \in Workers \ {w} :
                      wk[v].pc = "pairing" => wk[v].local # wk[w].local

\* C4 happens: two handle loops have each paired a user connection with a
\* tunnel connection and both copiers are running.
C4_Witness == Cardinality(copying) = 2

\* The user connection u is queued in the local channel, or held by a
\* handle loop or a session handler that is pairing it.
Waiting(u) ==
    \/ \E i \in DOMAIN localChannel : localChannel[i].conn = u
    \/ \E w \in Workers : wk[w].pc = "pairing" /\ wk[w].local.conn = u
    \/ \E x \in 1 .. MaxTunnel :
           sn[x].pc \in {"opening", "requeue"} /\ sn[x].local.conn = u

\* C5: every open user connection is queued in the local channel, held by
\* a handle loop or a session handler that is pairing it, or streaming.
C5_UserConnAccounted ==
    \A u \in openU : Waiting(u) \/ \E p \in copying : p.user = u

\* The plain TCP Server under fair scheduling, in runs where the parent
\* context is not cancelled: every task of the Server that can take a step
\* eventually does, and the peer goes on dialing the tunnel port while the
\* Server listens. User arrivals and failures of the control channel are
\* not forced.
Scheduled ==
    \/ Start
    \/ TunnelArrive
    \/ HandshakeRecv
    \/ \E ioOk \in BOOLEAN : HandshakeEval(ioOk)
    \/ \E w \in Workers : HandleLoopLocal(w)
    \/ \E w \in Workers, sendOk \in BOOLEAN : HandleLoopTunnel(w, sendOk)
    \/ \E w \in Workers : HandleLoopCancel(w)
    \/ \E p \in copying : CopierDone(p)
    \/ \E ok \in BOOLEAN : HandlerReqNewConn(ok)
    \/ Restart
    \/ RestartEnd

NextFair ==
    \/ Scheduled
    \/ LocalArrive
    \/ \E ok \in BOOLEAN : HandlerHeartbeat(ok)
    \/ \E res \in {"err", "closed", "byte"} : HandlerResult(res)

FairSpec == InitTcp /\ [][NextFair]_vars /\ WF_vars(Scheduled)

\* C6: under fair scheduling every accepted user connection is eventually
\* paired with a tunnel connection or closed, unless it is still waiting
\* when the last tunnel connection of the run has been dialed.
C6_EventuallyPaired ==
    \A u \in 1 .. MaxUser :
        u \in openU ~>
            \/ u \notin openU
            \/ \E p \in copied : p.user = u
            \/ Waiting(u) /\ nextT = MaxTunnel

\* The lifecycle is over: Restart has replaced the context and the channels,
\* or the parent context is cancelled and every task has returned.
TornDown ==
    \/ lifecycle > 0 /\ startPc = "init"
    \/ parentDone /\ ~restartMutex /\ Drained

\* C7: once a lifecycle is over, every socket it accepted is closed, except
\* those a copier is still streaming.
C7_ClosedOnExit ==
    TornDown =>
        /\ openU \subseteq {p.user : p \in copying}
        /\ openT \subseteq {p.tunnel : p \in copying}

\* C8: a mux session never has more than MuxCon streams opened on it.
C8_StreamCap ==
    \A x \in 1 .. MaxTunnel :
        /\ sn[x].opened <= MuxCon
        /\ Cardinality({p \in copied : p.tunnel = x}) <= MuxCon

\* C8 happens: a session carries MuxCon streams at once and has retired.
C8_Witness ==
    \E x \in 1 .. MaxTunnel :
        /\ sn[x].opened = MuxCon
        /\ Cardinality(Streaming(x)) = MuxCon
        /\ sn[x].pc = "retired"

\* C9: while the Client's control channel is set and its pool maintainer
\* has started, newPoolSize is at least ConnPoolSize.
C9_PoolFloor ==
    cControl # 0 /\ pm.pc # "none" => pm.newPoolSize >= ConnPoolSize

\* C9 happens: the pool has grown and has shrunk back to ConnPoolSize.
C9_Witness ==
    /\ cControl # 0
    /\ pm.pc = "send"
    /\ pm.newPoolSize = ConnPoolSize

\* C10: in the plain TCP Server, what the Client's tunnelDialer decodes
\* from the frame written on a paired tunnel connection is the remote
\* target of the user connection, without error.
C10_AddressRoundTrip ==
    \A p \in copied :
        variant = "tcp" =>
            TunnelDialerDecode(p.frame) = [err |-> FALSE, msg |-> p.remoteAddr]

(***************************************************************************)
(* C11: backpressure on the user side.                                     *)
(***************************************************************************)
\* No user connection has been handed to a copier yet: the tunnel side has
\* delivered nothing the handle loops could pair with.
TunnelStalled == copied = {} /\ lifecycle = 0 /\ ~restartMutex /\ ~ctxDone

\* C11: while the tunnel is stalled the Server keeps exactly ChannelSize of
\* the arriving user connections: once ChannelSize + 1 have arrived, one has
\* been closed and ChannelSize are still open.
C11_KeepsChannelSize ==
    (TunnelStalled /\ nextU = ChannelSize + 1)
        => Cardinality(openU) = ChannelSize

(***************************************************************************)
(* C12: the accept paths never wait for room in a queue.                   *)
(***************************************************************************)
\* An acceptor that is listening can always take its next connection.
AcceptorsProceed ==
    /\ (LocalListening /\ nextU < MaxUser) => ENABLED LocalArrive
    /\ (TunnelListening /\ nextT < MaxTunnel) => ENABLED TunnelArrive

\* What an accept does when the queue it offers to is full.
DropsWhenFull ==
    /\ (nextU' = nextU + 1 /\ Len(localChannel) = ChannelSize)
          => /\ localChannel' = localChannel
             /\ (nextU + 1) \notin openU'
             /\ reqNewConnChan' = reqNewConnChan
    /\ (nextU' = nextU + 1 /\ reqNewConnChan = ChannelSize)
          => reqNewConnChan' = reqNewConnChan
    /\ (nextT' = nextT + 1 /\ Len(tunnelChannel) = ChannelSize)
          => /\ tunnelChannel' = tunnelChannel
             /\ (nextT + 1) \notin openT'

\* C12: an acceptor never blocks on a full queue: with local_queue full the
\* user connection is closed, with req_new_conn full the offer is dropped,
\* with tunnel_queue full the tunnel connection is closed, and in each case
\* the acceptor goes on to its next accept.
C12_AcceptNeverBlocks == []AcceptorsProceed /\ [][DropsWhenFull]_vars

\* The third user connection found localChannel full with the first two and
\* was closed; the acceptor has gone past it.
C12_Witness ==
    /\ lifecycle = 0 /\ nextU = ChannelSize + 1
    /\ Len(localChannel) = ChannelSize
    /\ localChannel[1].conn = 1 /\ localChannel[2].conn = 2
    /\ reqNewConnChan = ChannelSize
    /\ openU = {1, 2}

(***************************************************************************)
(* C13: Restart under contention. Restart is an exported method of both    *)
(* transports; besides the channel handlers, any task holding the          *)
(* transport may call it, at any time.                                     *)
(***************************************************************************)
\* go s.Restart() by a task other than channelHandler.
RestartCall ==
    /\ restartCalls < MaxCall
    /\ restartCalls' = restartCalls + 1
    /\ UNCHANGED <<cliVars, config, tl, ctxs, restartMutex, lifecycle, controlChannel,
                   chans, tasks, socks, pairs>>

\* go c.Restart() by a task other than channelHandler.
ClientRestartCall ==
    /\ cRestartCalls < MaxCall
    /\ cRestartCalls' = cRestartCalls + 1
    /\ UNCHANGED <<srvVars, cliToken, cctx, cRestartMutex, cLifecycle, cControl,
                   csocks, ctasks, cchans, gauges, clock>>

\* The two peers are separate processes that share no state: a run of
\* SpecRestart exercises the Supervisor of one of them, the other peer not
\* having been started.
ServerAsleep ==
    /\ startPc = "init" /\ lifecycle = 0 /\ restartCalls = 0
    /\ nextT = 0 /\ ~parentDone

ClientAsleep ==
    /\ dl.pc = "none" /\ cLifecycle = 0 /\ cRestartCalls = 0
    /\ ~cParentDone

NextRestart ==
    \/ ClientAsleep /\ Start
    \/ ClientAsleep /\ ParentCancel
    \/ ClientAsleep /\ TunnelArrive
    \/ ClientAsleep /\ HandshakeRecv
    \/ ClientAsleep /\ \E ioOk \in BOOLEAN : HandshakeEval(ioOk)
    \/ ClientAsleep /\ HandshakeCancel
    \/ ClientAsleep /\ \E w \in Workers : HandleLoopCancel(w)
    \/ ClientAsleep /\ HandlerCancel
    \/ ClientAsleep /\ \E res \in {"err", "closed", "byte"} : HandlerResult(res)
    \/ ClientAsleep /\ RestartCall
    \/ ClientAsleep /\ Restart
    \/ ClientAsleep /\ RestartEnd
    \/ ServerAsleep /\ ClientStart
    \/ ServerAsleep /\ ClientParentCancel
    \/ ServerAsleep /\ \E ok \in BOOLEAN : ChannelDial(ok)
    \/ ServerAsleep /\ DialerCancel
    \/ ServerAsleep /\ \E reply \in Replies : DialerRecv(reply)
    \/ ServerAsleep /\ PoolCancel
    \/ ServerAsleep /\ ClientReaderErr
    \/ ServerAsleep /\ ClientHandlerErr
    \/ ServerAsleep /\ ClientHandlerCancel
    \/ ServerAsleep /\ ClientRestartCall
    \/ ServerAsleep /\ ClientRestart
    \/ ServerAsleep /\ ClientRestartEnd

SpecRestart == InitTcp /\ [][NextRestart]_vars

\* The state Restart leaves behind on the Server.
ServerFresh ==
    /\ ~restartMutex /\ ctxDone = parentDone
    /\ controlChannel = NoConn
    /\ tunnelChannel = <<>> /\ localChannel = <<>> /\ reqNewConnChan = 0
    /\ startPc = "init"

\* The state Restart leaves behind on the Client.
ClientFresh ==
    /\ ~cRestartMutex /\ cCtxDone = cParentDone
    /\ cControl = 0
    /\ poolConnections = 0 /\ loadConnections = 0
    /\ dl.pc = "dial"

\* A Restart call returns (the count of pending calls drops) while the mutex
\* is held: nothing but that count changes.
LosersChangeNothing ==
    /\ (restartCalls' < restartCalls /\ restartMutex)
          => UNCHANGED <<cliVars, config, tl, ctxs, restartMutex, lifecycle,
                         controlChannel, chans, tasks, socks, pairs>>
    /\ (cRestartCalls' < cRestartCalls /\ cRestartMutex)
          => UNCHANGED <<srvVars, cliToken, cctx, cRestartMutex, cLifecycle,
                         cControl, csocks, ctasks, cchans, gauges, clock>>

\* The lifecycle advances only at the end of the one sequence that holds the
\* mutex, by one, into the fresh state, however many calls there were.
OneSequence ==
    /\ lifecycle' # lifecycle
          => /\ restartMutex /\ lifecycle' = lifecycle + 1
             /\ ServerFresh'
    /\ cLifecycle' # cLifecycle
          => /\ cRestartMutex /\ cLifecycle' = cLifecycle + 1
             /\ ClientFresh'
    /\ (restartMutex /\ ~restartMutex') => lifecycle' = lifecycle + 1
    /\ (cRestartMutex /\ ~cRestartMutex') => cLifecycle' = cLifecycle + 1

\* C13: Restart is idempotent under contention: a caller that fails the
\* try-lock returns without changing state, exactly one restart sequence
\* runs, and it ends in the state a single call ends in.
C13_RestartIdempotent == [][LosersChangeNothing /\ OneSequence]_vars

\* Contention: a restart sequence holds the Server's mutex, past its
\* cancel, while MaxCall further calls of Restart are about to try the lock.
C13_Witness ==
    /\ restartMutex /\ ctxDone /\ lifecycle = 0
    /\ restartCalls = MaxCall

(***************************************************************************)
(* C14: tunnel connections from another address.                           *)
(***************************************************************************)
\* The connection an accept step keeps: queued for the handle loops, or
\* handed to the handshake.
KeptByAccept ==
    IF Len(tunnelChannel') > Len(tunnelChannel)
    THEN {tunnelChannel'[Len(tunnelChannel')]}
    ELSE IF hs'.conn # hs.conn /\ hs'.conn # NoConn /\ nextT' = nextT + 1
         THEN {hs'.conn}
         ELSE {}

FromControlPeer ==
    (controlChannel # NoConn /\ nextT' = nextT + 1)
        => /\ \A c \in KeptByAccept : c.ip = controlChannel.ip
           /\ (KeptByAccept = {}
                 => tunnelChannel' = tunnelChannel /\ (nextT + 1) \notin openT')

\* C14: while the control channel is established, a tunnel connection from
\* an IP other than the control channel's peer is closed at once and never
\* placed on the tunnel queue: whatever an accept keeps comes from the
\* control channel's peer, anything else is closed.
C14_ForeignPeerDropped == [][FromControlPeer]_vars

\* With the control channel established and nothing else going on, the
\* second connection came from the other address and is gone.
C14_Witness ==
    /\ variant = "tcp" /\ lifecycle = 0 /\ ~restartMutex /\ nextU = 0
    /\ controlChannel # NoConn /\ controlChannel.id = 1
    /\ nextT = 2 /\ openT = {1} /\ tunnelChannel = <<>>

(***************************************************************************)
(* C15: order of dispatch on the Client's control channel.                 *)
(***************************************************************************)
\* channelHandler takes the read error while signals read before it are
\* still waiting in msgChan.
ErrOvertakes ==
    /\ hd.pc = "run" /\ errChan /\ ~errChan'
    /\ msgChan # <<>>

\* C15: the Client dispatches control-channel events strictly in the order
\* they were read: a read error or end of stream is not acted on before the
\* signals received ahead of it.
C15_DispatchInOrder == [][~ErrOvertakes]_vars

(***************************************************************************)
(* C16: a burst of REQ_CHAN against the connections already in flight.     *)
(***************************************************************************)
\* The REQ_CHAN signals read and not yet dispatched.
Burst == {i \in 1 .. Len(msgChan) : msgChan[i] = SG_Chan}

\* channelHandler dispatches a REQ_CHAN of a burst that the connections in
\* flight (dialed, waiting for their address) already cover.
CoveredReqChan ==
    /\ hd.pc = "run" /\ Len(msgChan') < Len(msgChan)
    /\ Head(msgChan) = SG_Chan
    /\ poolConnections >= Cardinality(Burst)

\* C16: a burst of N REQ_CHAN signals received while at least N connections
\* are in flight spawns no new tunnel dialer.
C16_BurstCoalesced == [][CoveredReqChan => td'.spawned <= td.spawned]_vars

(***************************************************************************)
(* C17: how a burst of user connections is spread over mux sessions.       *)
(***************************************************************************)
\* No stream failed to open, no address failed to be sent, nothing was
\* cancelled: a session handler has retired only by reaching MuxCon.
NoSessionError ==
    \A x \in 1 .. MaxTunnel :
        /\ sn[x].opened = sn[x].counter
        /\ sn[x].pc \in {"none", "run", "opening", "retired", "closed"}
        /\ sn[x].pc \in {"retired", "closed"} => sn[x].counter = MuxCon

\* The sessions that carry a stream of the burst.
SessionsUsed == {p.tunnel : p \in copied}

\* C17: a burst of user connections fills one mux session with MuxCon
\* streams before the next session is used (six connections with MuxCon = 3:
\* exactly two sessions, three streams each). For a burst of MuxCon
\* connections, all of them paired: exactly one session is used.
C17_BurstFillsSessions ==
    (/\ variant = "mux" /\ lifecycle = 0 /\ ~ctxDone /\ NoSessionError
     /\ nextU = MuxCon /\ Cardinality(copied) = MuxCon)
        => Cardinality(SessionsUsed) = 1

(***************************************************************************)
(* C18: the pool size under a steady load of REQ_CHAN.                     *)
(***************************************************************************)
\* Sixty seconds of steady load: channelHandler dispatches SteadyRate
\* SG_Chan a second, each one atomic.AddInt32(&c.loadConnections, 1). The
\* dialers those signals start (or the controlFlow tokens they take) run to
\* their end inside the minute and leave the maintainer's newPoolSize alone.
SteadyMinute ==
    /\ hd.pc = "run" /\ pm.pc = "run"
    /\ loadConnections < 60 * SteadyRate
    /\ loadConnections' = loadConnections + 60 * SteadyRate
    /\ UNCHANGED <<srvVars, cliToken, cctx, crst, cControl, csocks, ctasks, cchans,
                   poolConnections, clock>>

\* tickerLoad fires at the end of a minute of steady load.
SteadyWindow == loadConnections >= 60 * SteadyRate /\ PoolLoad

NextLoad ==
    \/ ClientStart
    \/ \E ok \in BOOLEAN : ChannelDial(ok)
    \/ \E reply \in Replies : DialerRecv(reply)
    \/ PoolTick
    \/ SteadyMinute
    \/ SteadyWindow
    \/ \E ok \in BOOLEAN : TunnelDialerDial(ok)
    \/ \E c \in td.waiting, frame \in AddrFrames : TunnelDialerRecv(c, frame)

SpecLoad == InitTcp /\ [][NextLoad]_vars

\* (loadConnections+4)/5 for the steady load: the size the pool is said to
\* approach.
PoolTarget == GoDiv(GoDiv(60 * SteadyRate + 59, 60) + 4, 5)

\* C18: from newPoolSize = ConnPoolSize = 1, two 60-second windows of
\* SteadyRate = 50 REQ_CHAN a second bring the pool size to about
\* ceil(50/5) = 10 (here: to within the 20% the maintainer tolerates).
C18_PoolConverges ==
    (pm.pc = "run" /\ clock.windows = 2)
        => 5 * pm.newPoolSize >= 4 * PoolTarget

(***************************************************************************)
(* C19: parsePortMappings. Strings are sequences of character codes.       *)
(***************************************************************************)
\* ' ', '-', '0', '5', ':', '=', 'a'
EntryChars == {32, 45, 48, 53, 58, 61, 97}

\* The entries a configuration may hold.
Entries == UNION {[1 .. n -> EntryChars] : n \in 1 .. MaxEntryLen}

\* strings.Split(s, sep) for a one-character separator.
RECURSIVE Split(_, _)
Split(s, sep) ==
    IF \A i \in 1 .. Len(s) : s[i] # sep
    THEN <<s>>
    ELSE LET k == CHOOSE i \in 1 .. Len(s) :
                      s[i] = sep /\ \A j \in 1 .. i - 1 : s[j] # sep
         IN  <<SubSeq(s, 1, k - 1)>> \o Split(SubSeq(s, k + 1, Len(s)), sep)

\* strings.TrimSpace
RECURSIVE TrimSpace(_)
TrimSpace(s) ==
    IF s = <<>> THEN s
    ELSE IF s[1] = 32 THEN TrimSpace(Tail(s))
    ELSE IF s[Len(s)] = 32 THEN TrimSpace(SubSeq(s, 1, Len(s) - 1))
    ELSE s

RECURSIVE DecimalValue(_)
DecimalValue(digits) ==
    IF digits = <<>> THEN 0
    ELSE 10 * DecimalValue(SubSeq(digits, 1, Len(digits) - 1))
           + (digits[Len(digits)] - 48)

\* strconv.Atoi: an optional sign, then one or more decimal digits.
Atoi(s) ==
    LET signed == s # <<>> /\ s[1] \in {43, 45}
        digits == IF signed THEN Tail(s) ELSE s
        err == digits = <<>> \/ \E i \in 1 .. Len(digits) : digits[i] \notin 48 .. 57
    IN  [err |-> err,
         val |-> IF err THEN 0
                 ELSE IF signed /\ s[1] = 45 THEN -DecimalValue(digits)
                 ELSE DecimalValue(digits)]

RECURSIVE DecimalDigits(_)
DecimalDigits(n) ==
    IF n < 10 THEN <<48 + n>>
    ELSE DecimalDigits(n \div 10) \o <<48 + (n % 10)>>

\* strconv.Itoa, and %d of fmt.Sprintf
Itoa(n) == IF n < 0 THEN <<45>> \o DecimalDigits(-n) ELSE DecimalDigits(n)

\* The body of the loop of parsePortMappings for one entry: the listener it
\* starts, or logger.Fatalf.
ParseEntry(portMapping) ==
    LET parts == Split(portMapping, 61)
    IN  IF Len(parts) < 2
        THEN LET port == Atoi(parts[1])
             IN  [fatal |-> port.err,
                  localAddr |-> <<58>> \o Itoa(port.val),
                  remoteAddr |-> TrimSpace(Itoa(port.val))]
        ELSE LET localAddr == TrimSpace(parts[1])
             IN  [fatal |-> FALSE,
                  localAddr |-> IF Atoi(localAddr).err THEN localAddr
                                ELSE <<58>> \o localAddr,
                  remoteAddr |-> TrimSpace(parts[2])]

\* go s.parsePortMappings(), from Start once the control channel is set:
\* one listener per entry, in order, up to an entry that is fatal.
ParsePortMappings ==
    /\ startPc = "done" /\ controlChannel # NoConn
    /\ mappings.pc = "none"
    /\ LET bad == {i \in 1 .. Len(Ports) : ParseEntry(Ports[i]).fatal}
           n == IF bad = {} THEN Len(Ports)
                ELSE (CHOOSE i \in bad : \A j \in bad : i <= j) - 1
       IN  mappings' = [pc |-> IF bad = {} THEN "done" ELSE "fatal",
                        listeners |->
                            [i \in 1 .. n |->
                                [localAddr |-> ParseEntry(Ports[i]).localAddr,
                                 remoteAddr |-> ParseEntry(Ports[i]).remoteAddr]]]
    /\ UNCHANGED <<cliVars, variant, Ports, tl, ctxs, rst, controlChannel, chans, tasks,
                   socks, pairs>>

\* The plain TCP Server with any one entry as its port mappings.
InitPorts ==
    /\ variant = "tcp" /\ NewServer /\ cliToken = Token /\ NewTCPClient
    /\ Ports \in {<<e>> : e \in Entries}
    /\ mappings = NoMappings

NextPorts ==
    \/ Start
    \/ TunnelArrive
    \/ HandshakeRecv
    \/ \E ioOk \in BOOLEAN : HandshakeEval(ioOk)
    \/ ParsePortMappings

SpecPorts == InitPorts /\ [][NextPorts]_vars

\* "local_bind=remote_target" of a parsed mapping.
Serialize(m) == m.localAddr \o <<61>> \o m.remoteAddr

Numeric(s) == ~Atoi(s).err

\* What the mapping of one entry is said to be.
MappedAsStated(entry, m) ==
    LET parts == Split(entry, 61)
        left == TrimSpace(parts[1])
    IN  /\ (Len(parts) < 2 /\ Numeric(entry))
              => /\ m.localAddr = <<58>> \o Itoa(Atoi(entry).val)
                 /\ m.remoteAddr = <<58>> \o Itoa(Atoi(entry).val)
        /\ (Len(parts) >= 2 /\ Numeric(left))
              => /\ m.localAddr = <<58>> \o left
                 /\ m.remoteAddr = TrimSpace(parts[2])
        /\ (Len(parts) >= 2 /\ ~Numeric(left))
              => m.localAddr = left
        /\ LET again == ParseEntry(Serialize(m))
           IN  /\ ~again.fatal
               /\ again.localAddr = m.localAddr
               /\ again.remoteAddr = m.remoteAddr

\* C19: the port-mapping parser maps a bare integer N to local ":N" and
\* remote ":N", maps "N=R" with numeric N to local ":N" and remote R, leaves
\* any other left side as it is, and parsing "local=remote" of a parsed
\* mapping gives the same mapping again.
C19_PortMappingParsed ==
    \A i \in 1 .. Len(mappings.listeners) :
        MappedAsStated(Ports[i], mappings.listeners[i])

(***************************************************************************)
(* C20: CLOSED and unknown bytes, at any point of the Established life.    *)
(***************************************************************************)
\* The Server's channelHandler serves an established control channel.
ServerEstablished == ch.pc = "run" /\ ~ctxDone /\ controlChannel # NoConn

\* C20: during the whole Established lifetime a CLOSED or an unknown byte
\* read from the control channel initiates Restart, for every signal and not
\* only the first: on the Server, while channelHandler runs, either its
\* reader is still reading the control channel or a byte it has read has
\* started Restart (and ended the handler).
C20_EverySignalHandled == ServerEstablished => ch.reader = "reading"

(***************************************************************************)
(* Either peer on its own: the plain TCP Server or the Client, whichever   *)
(* takes the first step of a run; the other peer is not started.           *)
(***************************************************************************)
NextPeers ==
    \/ ClientAsleep /\ Start
    \/ ClientAsleep /\ ParentCancel
    \/ ClientAsleep /\ TunnelArrive
    \/ ClientAsleep /\ HandshakeRecv
    \/ ClientAsleep /\ \E ioOk \in BOOLEAN : HandshakeEval(ioOk)
    \/ ClientAsleep /\ HandshakeCancel
    \/ ClientAsleep /\ LocalArrive
    \/ ClientAsleep /\ \E w \in Workers : HandleLoopLocal(w)
    \/ ClientAsleep /\ \E w \in Workers, sendOk \in BOOLEAN : HandleLoopTunnel(w, sendOk)
    \/ ClientAsleep /\ \E w \in Workers : HandleLoopCancel(w)
    \/ ClientAsleep /\ \E p \in copying : CopierDone(p)
    \/ ClientAsleep /\ HandlerCancel
    \/ ClientAsleep /\ \E ok \in BOOLEAN : HandlerReqNewConn(ok)
    \/ ClientAsleep /\ \E ok \in BOOLEAN : HandlerHeartbeat(ok)
    \/ ClientAsleep /\ \E res \in {"err", "closed", "byte"} : HandlerResult(res)
    \/ ClientAsleep /\ Restart
    \/ ClientAsleep /\ RestartEnd
    \/ ServerAsleep /\ ClientStart
    \/ ServerAsleep /\ ClientParentCancel
    \/ ServerAsleep /\ \E ok \in BOOLEAN : ChannelDial(ok)
    \/ ServerAsleep /\ DialerCancel
    \/ ServerAsleep /\ \E reply \in Replies : DialerRecv(reply)
    \/ ServerAsleep /\ PoolTick
    \/ ServerAsleep /\ PoolLoad
    \/ ServerAsleep /\ PoolCancel
    \/ ServerAsleep /\ \E ok \in BOOLEAN : TunnelDialerDial(ok)
    \/ ServerAsleep /\ \E c \in td.waiting, frame \in AddrFrames :
                           TunnelDialerRecv(c, frame)
    \/ ServerAsleep /\ \E msg \in Signals : ClientReader(msg)
    \/ ServerAsleep /\ ClientReaderErr
    \/ ServerAsleep /\ ClientHandlerMsg
    \/ ServerAsleep /\ ClientHandlerErr
    \/ ServerAsleep /\ ClientHandlerCancel
    \/ ServerAsleep /\ ClientRestart
    \/ ServerAsleep /\ ClientRestartEnd

SpecPeers == InitTcp /\ [][NextPeers]_vars

(***************************************************************************)
(* C21: errors on the control channel.                                     *)
(***************************************************************************)
\* Restart is initiated only by a running handler, which ends with it.
RestartEndsHandler ==
    /\ restartCalls' > restartCalls
          => /\ ch.pc = "run" /\ ch'.pc = "done"
             /\ restartCalls' = restartCalls + 1
    /\ cRestartCalls' > cRestartCalls
          => /\ hd.pc = "run" /\ hd'.pc = "done"
             /\ cRestartCalls' = cRestartCalls + 1

\* The Server's handler after a write of REQ_CHAN (a token leaves
\* reqNewConnChan), a write of HB or its read: it goes on, or it ends and
\* initiates Restart; when the operation failed it is the latter.
ServerOutcomeHandled ==
    LET wrote == ch.pc = "run" /\ reqNewConnChan' = reqNewConnChan - 1
        read == ch.pc = "run" /\ ch.reader = "reading" /\ ch'.reader = "done"
        restarts == ch'.pc = "done" /\ restartCalls' = restartCalls + 1
        goesOn == ch'.pc = "run" /\ restartCalls' = restartCalls
    IN  /\ (wrote \/ read) => (restarts \/ goesOn)
        /\ (~ch.failed /\ ch'.failed) => (ch.pc = "run" /\ restarts)

\* The Client's handler takes the read error: it ends and initiates Restart.
ClientErrorHandled ==
    (hd.pc = "run" /\ errChan /\ ~errChan')
        => hd'.pc = "done" /\ cRestartCalls' = cRestartCalls + 1

\* C21: a read error on the control channel, or a failed write of HB or
\* REQ_CHAN by the Server, ends the control-channel handler and initiates
\* Restart, once for the lifecycle (never two calls pending, never a call
\* from a handler that goes on); a failed write is not ignored or retried.
C21_ErrorRestartsOnce ==
    /\ [](restartCalls <= 1 /\ cRestartCalls <= 1)
    /\ [](ch.failed => ch.pc = "done")
    /\ [][RestartEndsHandler /\ ServerOutcomeHandled /\ ClientErrorHandled]_vars

\* The Server's handler has ended on a failed write (its reader still
\* reads), not on cancellation, and its one call of Restart is pending.
C21_Witness ==
    /\ ch.pc = "done" /\ ch.failed /\ ch.reader = "reading" /\ restartCalls = 1
    /\ lifecycle = 0 /\ ~ctxDone /\ ~restartMutex

(***************************************************************************)
(* C22: the control-channel socket at the end of a lifecycle.              *)
(***************************************************************************)
\* The Client's lifecycle has ended, by cancellation of the parent context
\* or inside Restart after its sleep: the context is cancelled and the
\* dialer, the pool maintainer and the handler have returned.
ClientTornDown == cCtxDone /\ ClientDrained /\ hd.pc = "done"

\* C22: when a lifecycle ends, by cancel or by Restart, the local side
\* closes its control-channel socket: once teardown has finished the control
\* channel of the ended lifecycle is not left open (stated for the Client).
C22_ControlSocketClosed ==
    (ClientTornDown /\ cControl # 0) => cControl \notin cOpen

(***************************************************************************)
(* The WS-mux Server (part_001): its control channel. There is no          *)
(* handshake loop: the HTTP handler of tunnelListener installs the control *)
(* channel, and tunnelListener closes it when the context is cancelled.    *)
(***************************************************************************)
\* Start: go s.tunnelListener(), and return.
WsStart ==
    /\ variant = "ws"
    /\ startPc = "init"
    /\ startPc' = "done"
    /\ tl' = [NoListener EXCEPT !.pc = "serving"]
    /\ UNCHANGED <<cliVars, config, ctxs, rst, controlChannel, chans, hs, ch, wk, sn,
                   socks, pairs>>

\* One HTTP request, each in a goroutine of its own: the Authorization
\* header is checked, the connection is upgraded; a "/channel" request that
\* finds s.controlChannel nil goes on to install itself, "/tunnel" offers a
\* session to tunnelChannel.
WsRequest(path, authOk, ip) ==
    /\ variant = "ws"
    /\ tl.pc = "serving"
    /\ nextT < MaxTunnel
    /\ nextT' = nextT + 1
    /\ LET conn == [id |-> nextT + 1, ip |-> ip, hello |-> <<>>]
       IN  IF ~authOk
           THEN UNCHANGED <<tunnelChannel, openT, tl>>
           ELSE IF path = "/channel" /\ controlChannel = NoConn
           THEN /\ tl' = [tl EXCEPT !.passed = @ \cup {conn}]
                /\ openT' = openT \cup {conn.id}
                /\ UNCHANGED tunnelChannel
           ELSE IF path = "/tunnel"
           THEN OfferTunnel(conn) /\ UNCHANGED tl
           ELSE \* a later "/channel": upgraded, and left alone
                /\ openT' = openT \cup {conn.id}
                /\ UNCHANGED <<tunnelChannel, tl>>
    /\ UNCHANGED <<cliVars, config, ctxs, rst, controlChannel, localChannel,
                   reqNewConnChan, tasks, nextU, openU, pairs>>

\* s.controlChannel = conn; go s.channelHandler(); go s.parsePortMappings();
\* the handle loops. Nothing orders the requests between the test
\* s.controlChannel == nil and this block: a request that passed the test
\* installs itself whatever another request has done since.
WsInstall(conn) ==
    /\ variant = "ws"
    /\ tl.pc = "serving"
    /\ conn \in tl.passed
    /\ tl' = [tl EXCEPT !.passed = @ \ {conn}, !.installed = @ + 1]
    /\ controlChannel' = conn
    /\ ch' = [pc |-> "run", reader |-> "reading", failed |-> FALSE, reqs |-> 0]
    /\ wk' = [w \in Workers |-> IdleWorker]
    /\ UNCHANGED <<cliVars, config, ctxs, rst, chans, startPc, hs, sn, socks, pairs>>

\* <-s.ctx.Done(); if s.controlChannel != nil { s.controlChannel.Close() };
\* server.Shutdown
WsListenerShutdown ==
    /\ tl.pc = "serving"
    /\ ctxDone
    /\ tl' = [tl EXCEPT !.pc = "done"]
    /\ openT' = openT \ {controlChannel.id}
    /\ UNCHANGED <<cliVars, config, ctxs, rst, controlChannel, chans, tasks, nextT,
                   nextU, openU, pairs>>

\* The end of Restart once tunnelListener too has seen the cancellation.
WsRestartEnd == tl.pc = "done" /\ RestartEnd

InitWs ==
    variant = "ws" /\ DefaultPorts /\ NewServer /\ cliToken = Token /\ NewTCPClient

NextWs ==
    \/ WsStart
    \/ ParentCancel
    \/ \E path \in {"/channel", "/tunnel"}, authOk \in BOOLEAN, ip \in PeerIPs :
           WsRequest(path, authOk, ip)
    \/ \E conn \in tl.passed : WsInstall(conn)
    \/ WsListenerShutdown
    \/ \E w \in Workers : HandleLoopCancel(w)
    \/ HandlerCancel
    \/ \E ok \in BOOLEAN : HandlerHeartbeat(ok)
    \/ \E res \in {"err", "closed", "byte"} : HandlerResult(res)
    \/ Restart
    \/ WsRestartEnd

SpecWs == InitWs /\ [][NextWs]_vars

(***************************************************************************)
(* C23: Restart against the shutdown of the handler and of the listener.   *)
(***************************************************************************)
\* A step that calls Close on the control channel: Restart past its
\* TryLock, or the shutdown of tunnelListener.
ClosesControl ==
    /\ controlChannel # NoConn
    /\ \/ ~restartMutex /\ restartMutex'
       \/ tl.pc = "serving" /\ tl'.pc = "done"

\* The handler's shutdown branch: it writes CLOSED on s.controlChannel.
WritesClosed ==
    /\ ch.pc = "run" /\ ch'.pc = "done"
    /\ restartCalls' = restartCalls

\* C23: in every interleaving of Restart with the shutdown branch of the
\* control-channel handler and the shutdown of the listener, no task uses a
\* control channel that is closed or nil, and none is closed twice.
C23_NoUseAfterClose ==
    [][/\ ClosesControl => controlChannel.id \in openT
       /\ WritesClosed => (controlChannel # NoConn /\ controlChannel.id \in openT)]_vars

(***************************************************************************)
(* C24: which tunnel connections the plain TCP handle loops pair.          *)
(***************************************************************************)
\* A handle loop of the plain TCP Server takes a tunnel connection, writes
\* the target address on it and starts the copier.
PairsTunnel == variant = "tcp" /\ copied' # copied

\* What the check of acceptTunnelConn lets through once the control channel
\* is there: a connection from the address of the control channel's peer.
PassedPeerCheck(conn) == controlChannel # NoConn /\ conn.ip = controlChannel.ip

\* C24: in the plain TCP Server every tunnel connection a handle loop pairs
\* with a user connection was accepted while the control channel was
\* established and passed the check of the peer address; a connection queued
\* on tunnelChannel before that is never handed a target address.
C24_PairedWerePeerChecked ==
    [][PairsTunnel => PassedPeerCheck(Head(tunnelChannel))]_vars

(***************************************************************************)
(* C25: the error path of a session handler.                               *)
(***************************************************************************)
\* handleSessionError of session s is in its first statement, the send
\* s.localChannel <- *incomingConn, on a channel Restart has replaced since:
\* no task receives from that channel any more.
RequeueAbandoned(s) == sn[s].pc = "stuck"

\* C25: when a stream cannot be opened or the address cannot be written, the
\* error path of the session handler completes (user connection back on the
\* local channel, handle loop released, one REQ_CHAN offered, session closed
\* after its copiers) and never blocks for good, however full the local
\* channel is.
C25_ErrorPathCompletes ==
    \A s \in 1 .. MaxTunnel : ~RequeueAbandoned(s)

(***************************************************************************)
(* C26: the handle loops and session handlers after cancellation (mux).    *)
(***************************************************************************)
\* handleSession of session s has taken case <-s.ctx.Done(): what is left of
\* it is the wait for its copiers and the return.
HandlerLeft(s) == sn[s].pc = "drain"

\* The handle loop that started the handler of session s is in <-next.
BlockedOnNext(s) == \E w \in Workers : wk[w].pc = "waitNext" /\ wk[w].sess = s

\* C26: once the lifecycle of the TCP-mux Server is cancelled every handle
\* loop and every session handler exits and the session is closed: a
\* session handler that leaves on cancellation leaves no handle loop
\* blocked on `next` and no session open.
C26_CancelReleasesWorkers ==
    \A s \in 1 .. MaxTunnel : HandlerLeft(s) => (~BlockedOnNext(s) /\ s \notin openT)

(***************************************************************************)
(* C27: the Client's blocked reads after cancellation.                     *)
(***************************************************************************)
\* Tunnel dialers blocked in utils.ReceiveBinaryString(tcpConn), a read
\* with no deadline that only the Server can end, by writing or closing.
BlockedInRead == td.waiting # {}

\* C27: after the lifecycle of the Client is cancelled, every tunnel dialer
\* waiting for an address and the reader of the control channel close
\* their sockets and exit without the Server doing anything: when the tasks
\* that watch the context have returned, no tunnel dialer is left blocked
\* in its read.
C27_CancelEndsReads == ClientTornDown => ~BlockedInRead

(***************************************************************************)
(* C28: the shrink token of the pool maintainer.                           *)
(***************************************************************************)
\* poolMaintainer is in c.controlFlow <- struct{}{}: the channel has no
\* buffer, the send waits for channelHandler to receive.
PoolBlocked == pm.pc = "send"

\* channelHandler, the only receiver of controlFlow, runs no more.
NoReceiver == hd.pc \in {"none", "done"}

\* C28: emitting the shrink token does not block the pool maintainer: it
\* goes on serving its timers and exits on cancellation even if no REQ_CHAN
\* ever consumes the token.
C28_ShrinkNeverBlocks == (cCtxDone /\ NoReceiver) => ~PoolBlocked

(***************************************************************************)
(* C29: the gauge of pooled tunnel connections.                            *)
(***************************************************************************)
\* C29: c.poolConnections is the number of tunnel dialers of the current
\* lifecycle that have dialed and still wait for an address, so it is never
\* negative and never above the number of waiting dialers, also after
\* Restart has reset it to 0 while dialers of the lifecycle before wait on.
C29_PoolGaugeCounts ==
    poolConnections >= 0 /\ poolConnections <= Cardinality(td.waiting)

(***************************************************************************)
(* C30: what the Client does on SG_Chan and on SG_HB.                      *)
(***************************************************************************)
\* channelHandler takes the signal sig from msgChan.
HandlesSignal(sig) ==
    /\ hd.pc = "run" /\ cLifecycle' = cLifecycle
    /\ msgChan # <<>> /\ Head(msgChan) = sig /\ msgChan' = Tail(msgChan)

\* The shrink token is taken from the waiting pool maintainer, no dialer
\* is started.
TokenConsumed == pm.pc = "send" /\ pm' = [pm EXCEPT !.pc = "run"] /\ td' = td

\* One tunnel dialer is started, the pool maintainer is left alone.
OneDialSpawned ==
    pm.pc # "send" /\ pm' = pm /\ td' = [td EXCEPT !.spawned = @ + 1]

ReqChanCounted ==
    HandlesSignal(SG_Chan) =>
        /\ loadConnections' = loadConnections + 1
        /\ TokenConsumed \/ OneDialSpawned
        /\ UNCHANGED <<poolConnections, csocks, cControl, hd, cRestartCalls>>

HeartbeatIgnored ==
    HandlesSignal(SG_HB) =>
        UNCHANGED <<gauges, pm, td, csocks, cControl, hd, cRestartCalls>>

\* C30: every SG_Chan the Client handles adds exactly one to loadConnections
\* and does exactly one of two things: it consumes the pending shrink token
\* and starts no dialer, or it starts exactly one tunnel dialer. An SG_HB
\* changes no counter, starts nothing and is not answered.
C30_ReqChanOneEffect == [][ReqChanCounted /\ HeartbeatIgnored]_vars

\* The first SG_Chan of a run has been handled: beside the dialers of the
\* initial pool exactly one more has been started.
C30_Witness ==
    /\ cLifecycle = 0 /\ hd.pc = "run" /\ msgChan = <<>> /\ clock.signals = 1
    /\ clock.windows = 0 /\ loadConnections = 1
    /\ td.spawned = ConnPoolSize + 1 /\ td.waiting = {}

(***************************************************************************)
(* C31: the arithmetic of the pool maintainer at the close of a window.    *)
(***************************************************************************)
\* Sixty firings of tickerPool in a minute in which the gauge of pooled
\* connections does not move: sixty times
\* atomic.AddInt32(&poolConnectionsSum, atomic.LoadInt32(&c.poolConnections)).
QuietMinute ==
    /\ pm.pc = "run"
    /\ clock.ticks = 0
    /\ clock' = [clock EXCEPT !.ticks = MaxTick]
    /\ pm' = [pm EXCEPT !.poolConnectionsSum = @ + 60 * poolConnections]
    /\ UNCHANGED <<srvVars, cliToken, cctx, crst, cControl, csocks, dl, hd, td, cchans,
                   gauges>>

NextWindow == NextClient \/ QuietMinute

SpecWindow == InitTcp /\ [][NextWindow]_vars

\* The least integer not below a / b, for b > 0.
Ceil(a, b) == IF a >= 0 THEN (a + b - 1) \div b ELSE -((-a) \div b)

\* tickerLoad can fire: the maintainer is in its select.
WindowCloses == pm.pc = "run" /\ clock.windows < MaxWindow

\* C31: at the close of a window the maintainer works with
\* avg_pool = ceil(pool_sum / 60) and avg_load = ceil(load_observed / 60):
\* the expressions (x+59)/60 of the code equal these ceilings for every
\* value the accumulators can hold when the window closes.
C31_WindowCeilings ==
    WindowCloses =>
        /\ GoDiv(pm.poolConnectionsSum + 59, 60) = Ceil(pm.poolConnectionsSum, 60)
        /\ GoDiv(loadConnections + 59, 60) = Ceil(loadConnections, 60)

(***************************************************************************)
(* C32: how a mux session retires.                                         *)
(***************************************************************************)
\* The session handler of s opens its MuxCon-th stream and goes into
\* finalizeSession.
Finalizes(s) == sn[s].counter < MuxCon /\ sn'[s].counter = MuxCon

\* What finalizeSession does before it waits for the copiers.
FinalizeReleases ==
    \A s \in 1 .. MaxTunnel :
        Finalizes(s) =>
            /\ sn[s].pc = "opening" /\ sn'[s].pc = "retired"
            /\ wk[sn[s].worker].pc = "waitNext" /\ wk[sn[s].worker].sess = s
            /\ wk'[sn[s].worker] = IdleWorker
            /\ reqNewConnChan' = OfferReqNewConn
            /\ s \in openT'

\* A session handler that has not failed goes on exactly until MuxCon
\* streams are open; the session of a finalized handler is open while one
\* of its MuxCon copiers runs and closed once none does.
FinalizedAtCap ==
    \A s \in 1 .. MaxTunnel :
        /\ sn[s].pc \in {"run", "opening"} => sn[s].counter < MuxCon
        /\ sn[s].counter = MuxCon =>
               /\ sn[s].opened = MuxCon
               /\ Cardinality({p \in copied : p.tunnel = s}) = MuxCon
               /\ sn[s].pc \in {"retired", "closed"}
               /\ sn[s].pc = "retired" <=> Streaming(s) # {}
               /\ s \in openT <=> Streaming(s) # {}

\* C32: a mux session retires exactly when MuxCon streams have been opened
\* on it: on retire the handle loop is released to take the next session,
\* one REQ_CHAN token is offered, and the session is closed only after
\* every one of its MuxCon copiers has finished, and is closed once they
\* all have.
C32_RetiresAtMuxCon == []FinalizedAtCap /\ [][FinalizeReleases]_vars

\* A session has carried MuxCon streams, its copiers have all finished and
\* it is closed; its handle loop has gone on to the next session.
C32_Witness ==
    \E s \in 1 .. MaxTunnel :
        /\ sn[s].counter = MuxCon /\ sn[s].pc = "closed" /\ s \notin openT
        /\ \E x \in 1 .. MaxTunnel :
               x # s /\ sn[x].pc = "run" /\ sn[x].worker = sn[s].worker

(***************************************************************************)
(* C33: the plain TCP handle loop when the target address cannot be sent.  *)
(***************************************************************************)
\* A handle loop takes a tunnel connection and pairs nothing: the write of
\* the target address failed.
SendFails ==
    /\ variant = "tcp" /\ lifecycle' = lifecycle
    /\ \E w \in Workers : wk[w].pc = "pairing"
    /\ tunnelChannel # <<>> /\ tunnelChannel' = Tail(tunnelChannel)
    /\ copied' = copied

\* The tunnel connection is closed; the handle loops, the local channel and
\* the user connections are as before.
DropsTunnelOnly ==
    SendFails =>
        /\ Head(tunnelChannel).id \notin openT'
        /\ wk' = wk /\ localChannel' = localChannel /\ openU' = openU

\* A handle loop leaves its inner loop for the outer select only by
\* handing its user connection to a copier, and takes a user connection
\* from the local channel only in the outer select.
KeepsUserConn ==
    \A w \in Workers :
        /\ (wk[w].pc = "pairing" /\ wk'[w].pc = "idle") =>
               \E p \in copied' \ copied : p.user = wk[w].local.conn
        /\ (wk[w].pc = "pairing" /\ wk'[w].pc = "pairing") =>
               wk'[w].local = wk[w].local
        /\ (wk[w].pc # "pairing" /\ wk'[w].pc = "pairing") =>
               /\ wk[w].pc = "idle"
               /\ localChannel # <<>> /\ localChannel' = Tail(localChannel)
               /\ wk'[w].local = Head(localChannel)

\* C33: when the plain TCP handle loop fails to write the target address on
\* a tunnel connection, it closes that tunnel connection and takes another
\* one for the same user connection without reading the local channel again;
\* the user connection is neither closed nor put back, and the loop reads the
\* local channel again only after the user connection went to a copier.
C33_RetriesSameUser ==
    [][variant = "tcp" => (DropsTunnelOnly /\ KeepsUserConn)]_vars

\* A handle loop still holds the first user connection after the only
\* tunnel connection besides the control channel was taken and closed.
C33_Witness ==
    /\ variant = "tcp" /\ lifecycle = 0 /\ ~ctxDone
    /\ controlChannel # NoConn /\ controlChannel.id = 1
    /\ nextT = 2 /\ openT = {1} /\ tunnelChannel = <<>> /\ copied = {}
    /\ nextU = 1 /\ openU = {1} /\ localChannel = <<>>
    /\ \E w \in Workers : wk[w].pc = "pairing" /\ wk[w].local.conn = 1

(***************************************************************************)
(* C34: the tokens of reqNewConnChan and the SG_Chan written for them.     *)
(***************************************************************************)
\* channelHandler takes one token from s.reqNewConnChan.
DrainsToken == reqNewConnChan' < reqNewConnChan /\ lifecycle' = lifecycle

\* One token, one write of SG_Chan: it succeeds, or the handler ends and
\* calls Restart. Nothing else writes an SG_Chan.
OneReqChanPerToken ==
    /\ DrainsToken =>
           /\ ch.pc = "run" /\ reqNewConnChan' = reqNewConnChan - 1
           /\ \/ ch'.reqs = ch.reqs + 1 /\ ch'.pc = "run"
              \/ ch'.reqs = ch.reqs /\ ch'.pc = "done" /\ ch'.failed
    /\ ch'.reqs > ch.reqs => DrainsToken

\* A producer puts at most one token, and only where there is room.
OffersToken ==
    reqNewConnChan' > reqNewConnChan =>
        reqNewConnChan' = reqNewConnChan + 1 /\ reqNewConnChan' <= ChannelSize

\* Whatever the fill of reqNewConnChan and whatever the handler is doing, a
\* session handler that has taken a user connection can open its stream and
\* an acceptor can take the next user connection.
ProducersProceed ==
    /\ \A s \in 1 .. MaxTunnel :
           sn[s].pc = "opening" => ENABLED SessionOpen(s, "ok")
    /\ (LocalListening /\ nextU < MaxUser) => ENABLED LocalArrive

\* C34: the Server's channelHandler writes exactly one SG_Chan on the
\* control channel for each token it takes from reqNewConnChan, and every
\* producer of tokens (acceptLocalConn, the retire and the error path of a
\* mux session) offers its token without waiting, so a slow or blocked
\* write on the control channel never blocks a handle loop.
C34_OneSignalPerToken ==
    /\ []ProducersProceed
    /\ [][OneReqChanPerToken /\ OffersToken]_vars

\* The token of the first user connection has been taken and its SG_Chan
\* written, and the tokens of the next ones fill reqNewConnChan.
C34_Witness ==
    /\ lifecycle = 0 /\ ch.pc = "run" /\ ch.reqs = 1
    /\ reqNewConnChan = ChannelSize /\ nextU = ChannelSize + 1

(***************************************************************************)
(* C35: a Restart after the parent context is cancelled.                   *)
(***************************************************************************)
\* The Server in a lifecycle whose context is cancelled and in which
\* nothing has been established or started.
ServerIdleCancelled ==
    /\ parentDone /\ ctxDone /\ lifecycle > 0
    /\ controlChannel = NoConn /\ tunnelChannel = <<>> /\ localChannel = <<>>
    /\ hs.pc # "busy" /\ ch.pc = "none"
    /\ \A w \in Workers : wk[w] = NoWorker
    /\ ~TunnelListening /\ ~LocalListening
    /\ startPc = "done" => hs.pc = "done"

\* The same for the Client; its tunnel dialers are not tied to a lifecycle,
\* those started before may still run.
ClientIdleCancelled ==
    /\ cParentDone /\ cCtxDone /\ cLifecycle > 0
    /\ cControl = 0 /\ pm = NoPool /\ hd.pc = "none"
    /\ dl.pc \in {"dial", "done"}

\* Restart ends with the parent context cancelled: the new lifecycle
\* starts cancelled, and stays so with nothing established or started.
BornCancelled ==
    /\ (parentDone /\ lifecycle' = lifecycle + 1) => ServerIdleCancelled'
    /\ ServerIdleCancelled => ServerIdleCancelled'
    /\ (cParentDone /\ cLifecycle' = cLifecycle + 1) => ClientIdleCancelled'
    /\ ClientIdleCancelled => (ClientIdleCancelled' /\ td'.spawned <= td.spawned)

\* C35: once the parent context is cancelled, every lifecycle a later
\* Restart creates is cancelled from the start: no control channel is
\* established, no handle loop, port listener or pool task is started, and
\* Start and the channel dialer return.
C35_ParentCancelPropagates == [][BornCancelled]_vars

\* The Server after a Restart that ended with the parent context cancelled:
\* Start has returned from the handshake with no control channel.
C35_Witness ==
    /\ parentDone /\ ctxDone /\ lifecycle = 1 /\ ~restartMutex /\ restartCalls = 0
    /\ startPc = "done" /\ hs.pc = "done" /\ controlChannel = NoConn
    /\ ch.pc = "none" /\ \A w \in Workers : wk[w] = NoWorker

(***************************************************************************)
(* C36: concurrent "/channel" requests to the WS-mux Server.               *)
(***************************************************************************)
\* C36: in the WS-mux Server concurrent upgrade requests to /channel cannot
\* both be installed as the control channel: per lifecycle the block that
\* sets s.controlChannel and starts channelHandler, the port listeners and
\* the handle loops runs at most once.
C36_OneControlPerLifecycle == tl.installed <= 1
====
